---- MODULE Spec2Model ----
(***************************************************************************)
(* Model of the in-memory job queue of src/src/services/queue.service.ts   *)
(* (class SimpleQueue).                                                    *)
(*                                                                         *)
(* JavaScript runs one task at a time.  An action of this module is one    *)
(* run of queue code from the point where the event loop enters it to the  *)
(* point where it suspends at an `await` on a timer (or returns):          *)
(*   Add         a call of add(), including the synchronous start of       *)
(*               processJobs() up to its first await when the queue is     *)
(*               idle;                                                     *)
(*   Dispatch    the 100 ms timer of processJob fires: the switch on the   *)
(*               job type runs, and the handler starts (or throws, in      *)
(*               which case the catch block and the next loop iteration    *)
(*               of processJobs run in the same task);                     *)
(*   HandlerDone the timer of a handler fires: the handler resolves, and   *)
(*               processJobs continues to the next await or to its exit.   *)
(* Job objects live in `heap` (JavaScript objects, addressed by id); the   *)
(* array this.jobs is the sequence `jobs` of references to them.           *)
(*                                                                         *)
(* Further specifications of the module:                                   *)
(*   RetentionSpec  the same queue, started with KeepLast - 1 or KeepLast  *)
(*                  jobs of earlier runs, so that the clean-up drops jobs; *)
(*   PruneSpec      the clean-up alone, applied to arrays of every mix of  *)
(*                  statuses;                                              *)
(*   InstancesSpec  the three exported queues, the helpers that add to     *)
(*                  them, getStats() and getQueueStats();                  *)
(*   OptionsSpec    add() called with every choice of options, on one of   *)
(*                  the exported queues;                                   *)
(*   StreamSpec     VideoStreamService.streamVideo of src/unnamed/part_009 *)
(*                  and the origin its upstream requests go to;            *)
(*   ProxySpec      VideoStreamService.proxyImageKitVideo of the same file *)
(*                  and the upstream its requests go to;                   *)
(*   LocalSpec      the route /local-videos/:filename of part_008;         *)
(*   ViewSpec       recordView of src/unnamed/part_003.                    *)
(***************************************************************************)
EXTENDS Integers, Sequences, FiniteSets, TLC

VARIABLES
    heap,        \* id -> QueueJob object (every object created by add())
    jobs,        \* this.jobs: sequence of references (ids) into heap
    processing,  \* this.processing
    loops,       \* suspended processJobs() calls: <<[id, job, pc]>>
    nextId,      \* number of add() calls so far, plus 1
    loopCount,   \* number of processJobs() calls so far
    hist,        \* history: id -> [invoked, thrown, lastMsg] of processJob calls
    steplog,     \* history: status assignments of the latest task, in order
    sel,         \* history: << >> or <<[job, pending]>>, the latest selection
    addReturn,   \* history: << >> or <<[id, status, attempts, wasIdle]>>
    qs,          \* the exported queues: instance -> its fields
    actor,       \* history: << >> or <<key>>, the queue the latest step ran on
    obs,         \* history: << >> or <<[op, key, value]>>, the latest read
    pruned,      \* history: << >> or <<js>>, the array the clean-up was applied to
    sv,          \* one streamVideo(req, res) call and its upstream exchanges
    px,          \* one proxyImageKitVideo(req, res) call and its upstream exchanges
    lv,          \* one request to the route /local-videos/:filename
    rv           \* the views of one reel by one user, and the recordView calls

queueVars == <<heap, jobs, processing, loops, nextId, loopCount, hist, steplog, sel, addReturn>>
instanceVars == <<qs, actor, obs>>
fnVars == <<pruned>>
streamVars == <<sv, px, lv, rv>>
vars == <<queueVars, instanceVars, fnVars, streamVars>>
\* What a step of the single queue leaves alone, and a step of the instances.
notQueueVars == <<instanceVars, fnVars, streamVars>>
notInstanceVars == <<queueVars, fnVars, streamVars>>

\* Bounds: the number of add() calls in one run of Spec, and of RetrySpec.
MaxJobs == 3
MaxRetryJobs == 2

\* `options.priority || 5`
DefaultPriority == 5
\* `options.maxAttempts || 3`
DefaultMaxAttempts == 3
\* `.slice(-100)`
KeepLast == 100

\* The job types of the switch in processJob.
KnownTypes == {"process-video", "stream-video", "process-analytics"}
\* The types add() is called with: one the switch knows, one it does not.
JobTypes == {"process-video", "bogus"}

\* An optional field of `options` is << >> (omitted) or <<v>>.
PriorityOpts == {<< >>, <<0>>, <<1>>, <<5>>}
MaxAttemptsOpts == {<< >>, <<0>>, <<1>>}
RetryAttemptsOpts == {<< >>, <<1>>, <<2>>}

\* Messages of the errors a handler throws when it reads its `data: any`.
DataErrors == {"data error 1"}
RetryDataErrors == {"data error 1", "data error 2"}

NoError == "<undefined>"

----------------------------------------------------------------------------
\* JavaScript `opt || dflt` on an optional number: omitted or 0 gives dflt.
OrDefault(opt, dflt) == IF opt = << >> \/ opt[1] = 0 THEN dflt ELSE opt[1]

\* The object literal of add().
NewJob(id, jobType, priorityOpt, maxAttemptsOpt) ==
    [ id          |-> id,
      type        |-> jobType,
      priority    |-> OrDefault(priorityOpt, DefaultPriority),
      attempts    |-> 0,
      maxAttempts |-> OrDefault(maxAttemptsOpt, DefaultMaxAttempts),
      createdAt   |-> id,
      processed   |-> FALSE,
      status      |-> "pending",
      error       |-> NoError ]

\* Mutant of SortByPriority: the new element stays where push() put it.
KeepOrder(js, h) == js

\* The elements of js with the priorities ps, by ascending priority, those of
\* one priority in the order they have in js.
RECURSIVE SortBuckets(_, _, _)
SortBuckets(js, h, ps) ==
    IF ps = {} THEN << >>
    ELSE LET p == CHOOSE x \in ps : \A y \in ps : x <= y
             Has(j) == h[j].priority = p
         IN  SelectSeq(js, Has) \o SortBuckets(js, h, ps \ {p})

\* this.jobs.sort((a, b) => a.priority - b.priority): Array.prototype.sort is
\* stable, so elements that compare equal keep their order.
SortByPriority(js, h) == SortBuckets(js, h, {h[js[i]].priority : i \in DOMAIN js})

\* Mutant of FindPending: find(j => j.status !== 'completed').
FindNotCompleted(js, h) ==
    LET P == {i \in 1..Len(js) : h[js[i]].status # "completed"}
    IN  IF P = {} THEN 0 ELSE CHOOSE i \in P : \A k \in P : i <= k

\* Mutant of FindPending: find(j => j.status === 'pending' && j.attempts === 0).
FindFresh(js, h) ==
    LET P == {i \in 1..Len(js) : h[js[i]].status = "pending" /\ h[js[i]].attempts = 0}
    IN  IF P = {} THEN 0 ELSE CHOOSE i \in P : \A k \in P : i <= k

\* this.jobs.find(j => j.status === 'pending'): the index of the first
\* pending job of the array, 0 when there is none.
FindPending(js, h) ==
    LET P == {i \in 1..Len(js) : h[js[i]].status = "pending"}
    IN  IF P = {} THEN 0 ELSE CHOOSE i \in P : \A k \in P : i <= k

\* Array.prototype.filter on the array of references.
FilterSeq(js, keep) ==
    LET Keeps(j) == j \in keep IN SelectSeq(js, Keeps)

\* Mutant of SliceLast: slice(0), the whole array.
SliceAll(js, n) == js

\* Array.prototype.slice(-n).
SliceLast(js, n) == SubSeq(js, IF Len(js) > n THEN Len(js) - n + 1 ELSE 1, Len(js))

IsTerminal(s) == s = "completed" \/ s = "failed"

\* Mutant of Prune: `this.jobs = this.jobs.slice(-100)`.
PruneTail(js, h) == SubSeq(js, IF Len(js) > KeepLast THEN Len(js) - KeepLast + 1 ELSE 1, Len(js))

\* The clean-up at the end of processJobs: the jobs that are not terminal,
\* followed by the last KeepLast terminal jobs.
Prune(js, h) ==
    LET term == {i \in DOMAIN h : IsTerminal(h[i].status)}
        live == {i \in DOMAIN h : ~IsTerminal(h[i].status)}
    IN  FilterSeq(js, live) \o SliceLast(FilterSeq(js, term), KeepLast)

----------------------------------------------------------------------------
(* The synchronous code of the queue works on a record m of the fields    *)
(* [heap, jobs, processing, hist, log, sel, cur]: cur is << >> or the      *)
(* <<[job, pc]>> at which the running processJobs() call suspends.         *)

\* An assignment `job.status = s`, logged with the value it overwrites.
SetStatus(m, j, s) ==
    [m EXCEPT !.heap[j].status = s,
              !.log = Append(@, [job |-> j, from |-> m.heap[j].status, to |-> s,
                                 attempts |-> m.heap[j].attempts])]

\* The call this.processJob(job), up to its `await` on the 100 ms timer.
CallProcessJob(m, j) ==
    [m EXCEPT !.hist[j].invoked = @ + 1,
              !.cur = <<[job |-> j, pc |-> "sleep"]>>]

\* Mutant of SelectJob: the increment of job.attempts is missing.
SelectJobNoCount(m, j) == SetStatus(m, j, "processing")

\* Mutant of SelectJob: a selection counts as two attempts.
SelectJobCountsTwice(m, j) ==
    LET m1 == SetStatus(m, j, "processing")
    IN  [m1 EXCEPT !.heap[j].attempts = @ + 2]

\* `job.status = 'processing'; job.attempts++` on the job the loop selected.
SelectJob(m, j) ==
    LET m1 == SetStatus(m, j, "processing")
    IN  [m1 EXCEPT !.heap[j].attempts = @ + 1]

\* Mutant of LoopHead: the clean-up runs in every pass of the loop.
LoopHeadPruning(m) ==
    LET js == Prune(m.jobs, m.heap)
        i  == FindPending(js, m.heap)
    IN  IF Len(js) > 0 /\ i # 0
        THEN LET j  == js[i]
                 m1 == [m EXCEPT !.jobs = js, !.sel = <<[job |-> j,
                            pending |-> {k \in DOMAIN m.heap : m.heap[k].status = "pending"}]>>]
             IN  CallProcessJob(SelectJob(m1, j), j)
        ELSE [m EXCEPT !.jobs = js, !.processing = FALSE, !.cur = << >>]

\* One pass through the head of the while loop of processJobs, from the
\* test of the loop to the await of processJob, or through the break, the
\* clean-up and `this.processing = false`.
LoopHead(m) ==
    LET i == FindPending(m.jobs, m.heap) IN
    IF Len(m.jobs) > 0 /\ i # 0
    THEN LET j  == m.jobs[i]
             m1 == [m EXCEPT !.sel = <<[job |-> j,
                        pending |-> {k \in DOMAIN m.heap : m.heap[k].status = "pending"}]>>]
         IN  CallProcessJob(SelectJob(m1, j), j)
    ELSE [m EXCEPT !.jobs = Prune(m.jobs, m.heap),
                   !.processing = FALSE,
                   !.cur = << >>]

\* Mutant of ProcessJobs: `this.processing = true` is missing.
ProcessJobsNoFlag(m) == LoopHead(m)

\* processJobs() from its first line.
ProcessJobs(m) == LoopHead([m EXCEPT !.processing = TRUE])

\* `error instanceof Error ? error.message : 'Unknown error'`
ErrorMessage(thrown) == IF thrown.isError THEN thrown.message ELSE "Unknown error"

\* The try branch after the await: processJob resolved.
OnResolved(m, j) ==
    LET m1 == SetStatus(m, j, "completed")
    IN  [m1 EXCEPT !.heap[j].processed = TRUE]

\* Mutant of OnRejected: `job.attempts > job.maxAttempts`.
OnRejectedOffByOne(m, j, thrown) ==
    LET m1 == [m EXCEPT !.heap[j].error = ErrorMessage(thrown)]
    IN  IF m1.heap[j].attempts > m1.heap[j].maxAttempts
        THEN SetStatus(m1, j, "failed")
        ELSE SetStatus(m1, j, "pending")

\* Mutant of OnRejected: a retried job starts again from attempts = 0.
OnRejectedResets(m, j, thrown) ==
    LET m1 == [m EXCEPT !.heap[j].error = ErrorMessage(thrown)]
    IN  IF m1.heap[j].attempts >= m1.heap[j].maxAttempts
        THEN SetStatus(m1, j, "failed")
        ELSE SetStatus([m1 EXCEPT !.heap[j].attempts = 0], j, "pending")

\* Mutant of OnRejected: the retry branch does not set the status back.
OnRejectedStuck(m, j, thrown) ==
    LET m1 == [m EXCEPT !.heap[j].error = ErrorMessage(thrown)]
    IN  IF m1.heap[j].attempts >= m1.heap[j].maxAttempts
        THEN SetStatus(m1, j, "failed")
        ELSE m1

\* The catch block: processJob rejected with `thrown`.
OnRejected(m, j, thrown) ==
    LET m1 == [m EXCEPT !.heap[j].error = ErrorMessage(thrown)]
    IN  IF m1.heap[j].attempts >= m1.heap[j].maxAttempts
        THEN SetStatus(m1, j, "failed")
        ELSE SetStatus(m1, j, "pending")

\* Mutant of AddStartsLoop: add() calls processJobs() without the test.
AddStartsLoopAlways(m) == TRUE

\* `if (!this.processing)` of add().
AddStartsLoop(m) == ~m.processing

\* The body of add(): push, sort, start the loop when idle.
AddBody(m, job) ==
    LET m1 == [m EXCEPT !.heap = (job.id :> job) @@ @,
                        !.hist = (job.id :> [invoked |-> 0, thrown |-> 0, lastMsg |-> NoError]) @@ @,
                        !.log  = Append(@, [job |-> job.id, from |-> "<new>", to |-> job.status,
                                            attempts |-> job.attempts])]
        m2 == [m1 EXCEPT !.jobs = Append(@, job.id)]
        m3 == [m2 EXCEPT !.jobs = SortByPriority(@, m2.heap)]
    IN  IF AddStartsLoop(m3) THEN ProcessJobs(m3) ELSE m3

\* getStats(), on the fields of the queue.
CountStatus(js, h, s) == Cardinality({i \in 1..Len(js) : h[js[i]].status = s})

\* Mutant of getStats: every job that is not completed counts as pending.
getStatsPendingAll ==
    [ total        |-> Len(jobs),
      pending      |-> Len(jobs) - CountStatus(jobs, heap, "completed"),
      processing   |-> CountStatus(jobs, heap, "processing"),
      completed    |-> CountStatus(jobs, heap, "completed"),
      failed       |-> CountStatus(jobs, heap, "failed"),
      isProcessing |-> processing ]

getStats ==
    [ total        |-> Len(jobs),
      pending      |-> CountStatus(jobs, heap, "pending"),
      processing   |-> CountStatus(jobs, heap, "processing"),
      completed    |-> CountStatus(jobs, heap, "completed"),
      failed       |-> CountStatus(jobs, heap, "failed"),
      isProcessing |-> processing ]

----------------------------------------------------------------------------
\* The state a task starts from, as the record the code above works on.
Machine ==
    [ heap |-> heap, jobs |-> jobs, processing |-> processing, hist |-> hist,
      log |-> << >>, sel |-> << >>, cur |-> << >> ]

Commit(m) ==
    /\ heap' = m.heap
    /\ jobs' = m.jobs
    /\ processing' = m.processing
    /\ hist' = m.hist
    /\ steplog' = m.log
    /\ sel' = m.sel

RemoveAt(s, l) == SubSeq(s, 1, l - 1) \o SubSeq(s, l + 1, Len(s))

\* The fields of a queue after `new SimpleQueue(name)`.
NewQueue ==
    [ heap |-> << >>, jobs |-> << >>, processing |-> FALSE, loops |-> << >>,
      nextId |-> 1, loopCount |-> 0, hist |-> << >> ]

\* The module-level constants: each is an instance of its own, named by its name.
videoProcessingQueue == "video-processing"

\* Mutant of videoStreamingQueue: a second name for the first instance.
SameQueue == videoProcessingQueue

videoStreamingQueue == "video-streaming"
analyticsQueue == "analytics"

\* The keys of the object getQueueStats() returns.
QueueKeys == {"videoProcessing", "videoStreaming", "analytics"}

\* The queue a key of getQueueStats() reads and a helper adds to.
QueueOf(k) ==
    CASE k = "videoProcessing" -> videoProcessingQueue
      [] k = "videoStreaming"  -> videoStreamingQueue
      [] k = "analytics"       -> analyticsQueue

Instances == {QueueOf(k) : k \in QueueKeys}

InstancesInit ==
    /\ qs = [i \in Instances |-> NewQueue]
    /\ actor = << >>
    /\ obs = << >>

QueueInit ==
    /\ heap = << >>
    /\ jobs = << >>
    /\ processing = FALSE
    /\ loops = << >>
    /\ nextId = 1
    /\ loopCount = 0
    /\ hist = << >>
    /\ steplog = << >>
    /\ sel = << >>
    /\ addReturn = << >>

FnInit == pruned = << >>

\* No request to streamVideo has arrived.
IdleCall ==
    [ pc |-> "idle", fileId |-> FALSE, range |-> << >>, total |-> 0,
      contentLength |-> << >>, contentType |-> "", sent |-> << >>,
      error |-> "none", resp |-> << >> ]

\* No request to proxyImageKitVideo has arrived.
IdleProxy ==
    [ pc |-> "idle", method |-> "GET", raw |-> [kind |-> "missing", host |-> "", file |-> ""],
      env |-> << >>,
      range |-> << >>, localCopy |-> FALSE, current |-> << >>, left |-> 0,
      retryCount |-> 0, request |-> << >>, requests |-> 0, followed |-> 0,
      failed |-> 0, retried |-> 0, delay |-> 0, closed |-> FALSE,
      destroyed |-> FALSE, err |-> << >>, upstream |-> << >>, resp |-> << >> ]

\* No request to the local-videos route has arrived.
IdleLocal ==
    [ pc |-> "idle", filename |-> << >>, range |-> << >>, total |-> 0,
      filePath |-> << >>, opened |-> << >>, resp |-> << >> ]

\* The reel has no view of the user, and no call of recordView is running.
NoCall == [pc |-> "idle", viewDuration |-> << >>, totalDuration |-> << >>, viewMs |-> 0,
           totalMs |-> 0, write |-> 0, incrementNow |-> FALSE]
NoViews == [view |-> << >>, viewsCount |-> 0, started |-> 0, call |-> NoCall,
            resp |-> << >>]

StreamInit == sv = IdleCall /\ px = IdleProxy /\ lv = IdleLocal /\ rv = NoViews

Init == QueueInit /\ InstancesInit /\ FnInit /\ StreamInit

\* add(jobType, data, {priority, maxAttempts})
Add(cap, jobType, priorityOpt, maxAttemptsOpt) ==
    /\ nextId <= cap
    /\ \E m \in {AddBody(Machine, NewJob(nextId, jobType, priorityOpt, maxAttemptsOpt))} :
           /\ Commit(m)
           /\ nextId' = nextId + 1
           /\ loopCount' = IF AddStartsLoop(Machine) THEN loopCount + 1 ELSE loopCount
           /\ loops' = IF m.cur = << >> THEN loops
                       ELSE Append(loops, [id |-> loopCount + 1, job |-> m.cur[1].job,
                                           pc |-> m.cur[1].pc])
           /\ addReturn' = <<[id |-> nextId, status |-> m.heap[nextId].status,
                              attempts |-> m.heap[nextId].attempts,
                              wasIdle |-> ~processing]>>
           /\ UNCHANGED notQueueVars

\* The rest of a processJobs() call l after its await has settled in the
\* state `settled`: the next pass through the head of the loop.
Resume(l, settled) ==
    \E m0 \in {settled} : \E m \in {LoopHead(m0)} :
        /\ Commit(m)
        /\ loops' = IF m.cur = << >> THEN RemoveAt(loops, l)
                    ELSE [loops EXCEPT ![l].job = m.cur[1].job, ![l].pc = m.cur[1].pc]
        /\ addReturn' = << >>
        /\ UNCHANGED <<nextId, loopCount>>
        /\ UNCHANGED notQueueVars

\* processJob(job) throws an Error with message msg (history: counted in hist).
Throws(m, j, msg) ==
    [m EXCEPT !.hist[j].thrown = @ + 1, !.hist[j].lastMsg = msg]

\* The 100 ms timer of processJob fires for loop l: the switch on job.type.
Dispatch(l, dataErrors) ==
    /\ l \in DOMAIN loops
    /\ loops[l].pc = "sleep"
    /\ LET j == loops[l].job IN
       IF heap[j].type \in KnownTypes
       THEN \* the handler starts; reading `data` in its first line may throw
            \/ /\ loops' = [loops EXCEPT ![l].pc = "handler"]
               /\ steplog' = << >>
               /\ sel' = << >>
               /\ addReturn' = << >>
               /\ UNCHANGED <<heap, jobs, processing, nextId, loopCount, hist>>
               /\ UNCHANGED notQueueVars
            \/ \E msg \in dataErrors :
                 Resume(l, OnRejected(Throws(Machine, j, msg), j,
                                      [isError |-> TRUE, message |-> msg]))
       ELSE \* default: throw new Error(`Unknown job type: ${job.type}`)
            LET msg == "Unknown job type: " \o heap[j].type
            IN  Resume(l, OnRejected(Throws(Machine, j, msg), j,
                                     [isError |-> TRUE, message |-> msg]))

\* The timer of the handler fires for loop l: the handler and processJob resolve.
HandlerDone(l) ==
    /\ l \in DOMAIN loops
    /\ loops[l].pc = "handler"
    /\ Resume(l, OnResolved(Machine, loops[l].job))

Next ==
    \/ \E t \in JobTypes, p \in PriorityOpts, a \in MaxAttemptsOpts : Add(MaxJobs, t, p, a)
    \/ \E l \in DOMAIN loops : Dispatch(l, DataErrors)
    \/ \E l \in DOMAIN loops : HandlerDone(l)

Spec == Init /\ [][Next]_vars

\* Fewer jobs, with more retry budgets and more than one error message.
RetryNext ==
    \/ \E t \in JobTypes, p \in PriorityOpts, a \in RetryAttemptsOpts : Add(MaxRetryJobs, t, p, a)
    \/ \E l \in DOMAIN loops : Dispatch(l, RetryDataErrors)
    \/ \E l \in DOMAIN loops : HandlerDone(l)

RetrySpec == Init /\ [][RetryNext]_vars

\* A timer of the suspended processJobs() call fires.
TimerFires == \E l \in DOMAIN loops : Dispatch(l, RetryDataErrors) \/ HandlerDone(l)

\* Timers fire: a suspended processJobs() call is eventually resumed.
LiveSpec == RetrySpec /\ WF_vars(TimerFires)

----------------------------------------------------------------------------
(* A queue that has been in use: it holds KeepLast - 1 or KeepLast jobs    *)
(* that ran earlier, and is idle.  The jobs added first had priority 5,    *)
(* the later ones priority 1 (all of one priority when the split is at an  *)
(* end); the first job failed on an unknown type, the others completed.    *)

\* Bound: the number of add() calls in one run of RetentionSpec, beyond KeepLast.
MaxRetentionJobs == 2

\* A job object created by add() with the given priority, in a given status
\* (attempts: 0 while it waits for its first selection, 1 afterwards).
JobIn(id, priority, status) ==
    [ id          |-> id,
      type        |-> IF status = "failed" THEN "bogus" ELSE "process-video",
      priority    |-> priority,
      attempts    |-> IF status = "pending" THEN 0 ELSE 1,
      maxAttempts |-> IF status = "failed" THEN 1 ELSE DefaultMaxAttempts,
      createdAt   |-> id,
      processed   |-> status = "completed",
      status      |-> status,
      error       |-> IF status = "failed" THEN "Unknown job type: bogus" ELSE NoError ]

RetentionInit ==
    \E n \in {KeepLast - 1, KeepLast} : \E split \in {0, n \div 2, n} :
        /\ heap = [id \in 1..n |->
                      JobIn(id, IF id <= split THEN 5 ELSE 1,
                            IF id = 1 THEN "failed" ELSE "completed")]
        /\ jobs = [i \in 1..n |-> IF i <= n - split THEN split + i ELSE i - (n - split)]
        /\ processing = FALSE
        /\ loops = << >>
        /\ nextId = n + 1
        /\ loopCount = n
        /\ hist = [id \in 1..n |->
                      [invoked |-> 1, thrown |-> IF id = 1 THEN 1 ELSE 0,
                       lastMsg |-> IF id = 1 THEN "Unknown job type: bogus" ELSE NoError]]
        /\ steplog = << >>
        /\ sel = << >>
        /\ addReturn = << >>
        /\ InstancesInit
        /\ FnInit
        /\ StreamInit

RetentionPriorityOpts == {<<1>>, <<5>>}
RetentionAttemptsOpts == {<<1>>}

RetentionNext ==
    \/ \E t \in JobTypes, p \in RetentionPriorityOpts, a \in RetentionAttemptsOpts :
          Add(KeepLast + MaxRetentionJobs, t, p, a)
    \/ \E l \in DOMAIN loops : Dispatch(l, DataErrors)
    \/ \E l \in DOMAIN loops : HandlerDone(l)

RetentionSpec == RetentionInit /\ [][RetentionNext]_vars

----------------------------------------------------------------------------
(* The clean-up of processJobs as a function of the array it is applied    *)
(* to: arrays of KeepLast - 1 completed jobs between a head and a           *)
(* tail of up to MaxEdge jobs each, in every status.                       *)

\* Bound: the length of the head and of the tail.
MaxEdge == 2

Statuses == {"pending", "processing", "completed", "failed"}

Edges == UNION {[1..n -> Statuses] : n \in 0..MaxEdge}

PruneInit ==
    \E head \in Edges, tail \in Edges :
        LET mid == [i \in 1..(KeepLast - 1) |-> "completed"]
            sts == head \o mid \o tail
        IN  /\ heap = [id \in 1..Len(sts) |-> JobIn(id, DefaultPriority, sts[id])]
            /\ jobs = [i \in 1..Len(sts) |-> i]
            /\ processing = TRUE
            /\ loops = << >>
            /\ nextId = Len(sts) + 1
            /\ loopCount = 1
            /\ hist = << >>
            /\ steplog = << >>
            /\ sel = << >>
            /\ addReturn = << >>
            /\ InstancesInit
            /\ FnInit
            /\ StreamInit

\* The assignment `this.jobs = this.jobs.filter(...).concat(...)`.
ApplyPrune ==
    /\ pruned = << >>
    /\ pruned' = <<jobs>>
    /\ jobs' = Prune(jobs, heap)
    /\ UNCHANGED <<heap, processing, loops, nextId, loopCount, hist, steplog, sel, addReturn>>
    /\ UNCHANGED <<instanceVars, streamVars>>

PruneNext == ApplyPrune

PruneSpec == PruneInit /\ [][PruneNext]_vars

----------------------------------------------------------------------------
(* The three exported queues and the helpers that add to them.  A queue   *)
(* instance is the record of its fields; a task of one instance is the     *)
(* same code as above, run on that record.                                 *)

MachineOf(q) ==
    [ heap |-> q.heap, jobs |-> q.jobs, processing |-> q.processing, hist |-> q.hist,
      log |-> << >>, sel |-> << >>, cur |-> << >> ]

\* The fields of instance q after a task that ends in m with suspended calls ls.
Settle(q, m, ls) ==
    [q EXCEPT !.heap = m.heap, !.jobs = m.jobs, !.processing = m.processing,
              !.hist = m.hist, !.loops = ls]

\* q.add(jobType, data, {priority, maxAttempts})
QueueAdd(q, jobType, priorityOpt, maxAttemptsOpt) ==
    LET m0 == MachineOf(q)
        m  == AddBody(m0, NewJob(q.nextId, jobType, priorityOpt, maxAttemptsOpt))
        ls == IF m.cur = << >> THEN q.loops
              ELSE Append(q.loops, [id |-> q.loopCount + 1, job |-> m.cur[1].job,
                                    pc |-> m.cur[1].pc])
    IN  [Settle(q, m, ls) EXCEPT !.nextId = @ + 1,
                                 !.loopCount = IF AddStartsLoop(m0) THEN @ + 1 ELSE @]

\* The rest of the processJobs() call l of q after its await settled.
QueueResume(q, l, settled) ==
    LET m == LoopHead(settled)
    IN  Settle(q, m, IF m.cur = << >> THEN RemoveAt(q.loops, l)
                     ELSE [q.loops EXCEPT ![l].job = m.cur[1].job, ![l].pc = m.cur[1].pc])

\* The 100 ms timer of processJob fires for call l of q: the possible outcomes.
QueueDispatch(q, l, dataErrors) ==
    LET j == q.loops[l].job
        Rejects(msg) == QueueResume(q, l, OnRejected(Throws(MachineOf(q), j, msg), j,
                                                     [isError |-> TRUE, message |-> msg]))
    IN  IF q.heap[j].type \in KnownTypes
        THEN {[q EXCEPT !.loops[l].pc = "handler"]} \cup {Rejects(msg) : msg \in dataErrors}
        ELSE {Rejects("Unknown job type: " \o q.heap[j].type)}

\* The timer of the handler fires for call l of q.
QueueHandlerDone(q, l) == QueueResume(q, l, OnResolved(MachineOf(q), q.loops[l].job))

\* Mutant of getStatsCall: counts on this.jobs after dropping the terminal
\* jobs from it in place.
getStatsCallPruning(q) ==
    LET live == {i \in DOMAIN q.heap : ~IsTerminal(q.heap[i].status)}
        js   == FilterSeq(q.jobs, live)
    IN  [ after |-> [q EXCEPT !.jobs = js],
          value |-> [ total        |-> Len(js),
                      pending      |-> CountStatus(js, q.heap, "pending"),
                      processing   |-> CountStatus(js, q.heap, "processing"),
                      completed    |-> CountStatus(js, q.heap, "completed"),
                      failed       |-> CountStatus(js, q.heap, "failed"),
                      isProcessing |-> q.processing ] ]

\* A call q.getStats(): the fields of q after the call, and the value returned.
\* filter() builds new arrays and the body assigns nothing.
getStatsCall(q) ==
    [ after |-> q,
      value |-> [ total        |-> Len(q.jobs),
                  pending      |-> CountStatus(q.jobs, q.heap, "pending"),
                  processing   |-> CountStatus(q.jobs, q.heap, "processing"),
                  completed    |-> CountStatus(q.jobs, q.heap, "completed"),
                  failed       |-> CountStatus(q.jobs, q.heap, "failed"),
                  isProcessing |-> q.processing ] ]

\* A call getQueueStats(): the three getStats() calls of the object literal,
\* in order, on the store of instances.
getQueueStats(store) ==
    LET a  == getStatsCall(store[videoProcessingQueue])
        s1 == [store EXCEPT ![videoProcessingQueue] = a.after]
        b  == getStatsCall(s1[videoStreamingQueue])
        s2 == [s1 EXCEPT ![videoStreamingQueue] = b.after]
        c  == getStatsCall(s2[analyticsQueue])
        s3 == [s2 EXCEPT ![analyticsQueue] = c.after]
    IN  [ after |-> s3,
          value |-> [ videoProcessing |-> a.value,
                      videoStreaming  |-> b.value,
                      analytics       |-> c.value ] ]

\* Bound: the number of jobs added to the three queues together.
MaxInstanceJobs == 2

TotalAdded(store) ==
    LET RECURSIVE Sum(_)
        Sum(S) == IF S = {} THEN 0
                  ELSE LET i == CHOOSE x \in S : TRUE IN (store[i].nextId - 1) + Sum(S \ {i})
    IN  Sum(DOMAIN store)

CompressionLevels == {"low", "medium", "high"}
Qualities == {"low", "medium", "high"}

\* `compressionLevel === 'high' ? 1 : compressionLevel === 'medium' ? 3 : 5`
VideoProcessingPriority(level) ==
    IF level = "high" THEN 1 ELSE IF level = "medium" THEN 3 ELSE 5

VideoStreamingPriorityAsProcessing(quality) ==
    IF quality = "high" THEN 1 ELSE IF quality = "medium" THEN 3 ELSE 5

\* `quality === 'high' ? 1 : quality === 'medium' ? 2 : 3`
VideoStreamingPriority(quality) ==
    IF quality = "high" THEN 1 ELSE IF quality = "medium" THEN 2 ELSE 3

\* The job object keeps the `data` it was added with.
WithData(q, id, data) == [q EXCEPT !.heap[id] = [data |-> data] @@ @]

\* A call of add() on the queue behind key k.
InstanceAdd(k, jobType, data, priority, maxAttempts) ==
    /\ TotalAdded(qs) < MaxInstanceJobs
    /\ \E q \in {QueueAdd(qs[QueueOf(k)], jobType, <<priority>>, <<maxAttempts>>)} :
           qs' = [qs EXCEPT ![QueueOf(k)] = WithData(q, qs[QueueOf(k)].nextId, data)]
    /\ actor' = <<k>>
    /\ obs' = << >>
    /\ UNCHANGED notInstanceVars

addVideoProcessingJob(level) ==
    InstanceAdd("videoProcessing", "process-video", [compressionLevel |-> level],
                VideoProcessingPriority(level), 3)

addVideoStreamingJob(quality) ==
    InstanceAdd("videoStreaming", "stream-video", [quality |-> quality],
                VideoStreamingPriority(quality), 2)

addAnalyticsJob ==
    InstanceAdd("analytics", "process-analytics", [eventType |-> "view"], 10, 1)

\* A timer of the queue behind key k fires for its processJobs() call l.
InstanceDispatch(k, l) ==
    /\ l \in DOMAIN qs[QueueOf(k)].loops
    /\ qs[QueueOf(k)].loops[l].pc = "sleep"
    /\ \E q \in QueueDispatch(qs[QueueOf(k)], l, DataErrors) :
           qs' = [qs EXCEPT ![QueueOf(k)] = q]
    /\ actor' = <<k>>
    /\ obs' = << >>
    /\ UNCHANGED notInstanceVars

InstanceHandlerDone(k, l) ==
    /\ l \in DOMAIN qs[QueueOf(k)].loops
    /\ qs[QueueOf(k)].loops[l].pc = "handler"
    /\ \E q \in {QueueHandlerDone(qs[QueueOf(k)], l)} :
           qs' = [qs EXCEPT ![QueueOf(k)] = q]
    /\ actor' = <<k>>
    /\ obs' = << >>
    /\ UNCHANGED notInstanceVars

\* A caller reads the statistics of the queue behind key k.
GetStats(k) ==
    /\ \E r \in {getStatsCall(qs[QueueOf(k)])} :
           /\ qs' = [qs EXCEPT ![QueueOf(k)] = r.after]
           /\ obs' = <<[op |-> "getStats", key |-> k, value |-> r.value]>>
    /\ actor' = << >>
    /\ UNCHANGED notInstanceVars

\* A caller reads the statistics of all queues.
GetQueueStats ==
    /\ \E r \in {getQueueStats(qs)} :
           /\ qs' = r.after
           /\ obs' = <<[op |-> "getQueueStats", key |-> "all", value |-> r.value]>>
    /\ actor' = << >>
    /\ UNCHANGED notInstanceVars

InstancesNext ==
    \/ \E level \in CompressionLevels : addVideoProcessingJob(level)
    \/ \E quality \in Qualities : addVideoStreamingJob(quality)
    \/ addAnalyticsJob
    \/ \E k \in QueueKeys : \E l \in 1..MaxInstanceJobs : InstanceDispatch(k, l)
    \/ \E k \in QueueKeys : \E l \in 1..MaxInstanceJobs : InstanceHandlerDone(k, l)
    \/ \E k \in QueueKeys : GetStats(k)
    \/ GetQueueStats

InstancesSpec == Init /\ [][InstancesNext]_vars

\* add() called with options of the caller's choice, on the queue behind
\* videoProcessing.  In the behaviours of OptionsSpec `obs` keeps the options
\* of every call so far, by job id.
MaxOptionJobs == 3
OptionPriorities == {<< >>, <<0>>, <<1>>}
OptionAttempts == {<< >>, <<1>>}
OptionsGiven == IF obs = << >> THEN << >> ELSE obs[1].value

OptionsAdd(priorityOpt, maxAttemptsOpt) ==
    /\ TotalAdded(qs) < MaxOptionJobs
    /\ \E q \in {QueueAdd(qs[videoProcessingQueue], "process-video", priorityOpt,
                          maxAttemptsOpt)} :
           qs' = [qs EXCEPT ![videoProcessingQueue] = q]
    /\ obs' = <<[op |-> "add", key |-> "videoProcessing",
                 value |-> Append(OptionsGiven, [priority |-> priorityOpt,
                                                 maxAttempts |-> maxAttemptsOpt])]>>
    /\ actor' = <<"videoProcessing">>
    /\ UNCHANGED notInstanceVars

OptionsDispatch(l) ==
    /\ l \in DOMAIN qs[videoProcessingQueue].loops
    /\ qs[videoProcessingQueue].loops[l].pc = "sleep"
    /\ \E q \in QueueDispatch(qs[videoProcessingQueue], l, DataErrors) :
           qs' = [qs EXCEPT ![videoProcessingQueue] = q]
    /\ actor' = <<"videoProcessing">>
    /\ UNCHANGED obs
    /\ UNCHANGED notInstanceVars

OptionsHandlerDone(l) ==
    /\ l \in DOMAIN qs[videoProcessingQueue].loops
    /\ qs[videoProcessingQueue].loops[l].pc = "handler"
    /\ \E q \in {QueueHandlerDone(qs[videoProcessingQueue], l)} :
           qs' = [qs EXCEPT ![videoProcessingQueue] = q]
    /\ actor' = <<"videoProcessing">>
    /\ UNCHANGED obs
    /\ UNCHANGED notInstanceVars

OptionsNext ==
    \/ \E p \in OptionPriorities, a \in OptionAttempts : OptionsAdd(p, a)
    \/ \E l \in 1..MaxOptionJobs : OptionsDispatch(l)
    \/ \E l \in 1..MaxOptionJobs : OptionsHandlerDone(l)

OptionsSpec == Init /\ [][OptionsNext]_vars

----------------------------------------------------------------------------
(* VideoStreamService.streamVideo (src/unnamed/part_009).  A JavaScript    *)
(* string is the sequence of its characters; a JavaScript number is <<n>>, *)
(* and NaN is << >>; an absent header or an undefined value is << >>, a    *)
(* present one <<v>>.                                                      *)

NaN == << >>
Num(n) == <<n>>

DigitChars == <<"0", "1", "2", "3", "4", "5", "6", "7", "8", "9">>
IsDigit(c) == \E d \in DOMAIN DigitChars : DigitChars[d] = c
DigitOf(c) == (CHOOSE d \in DOMAIN DigitChars : DigitChars[d] = c) - 1

\* String(n) of a non-negative integer.
RECURSIVE NumStr(_)
NumStr(n) ==
    IF n < 10 THEN <<DigitChars[n + 1]>> ELSE NumStr(n \div 10) \o <<DigitChars[(n % 10) + 1]>>

\* `${x}` of a JavaScript number that is NaN or a non-negative integer.
JsStr(x) == IF x = NaN THEN <<"N", "a", "N">> ELSE NumStr(x[1])

\* The index of the first occurrence of pat in str, 0 when there is none.
IndexOf(str, pat) ==
    LET P == {i \in 1..(Len(str) - Len(pat) + 1) : SubSeq(str, i, i + Len(pat) - 1) = pat}
    IN  IF P = {} THEN 0 ELSE CHOOSE i \in P : \A k \in P : i <= k

\* str.replace(/pat/, ''): the first occurrence of pat is removed.
RemoveFirst(str, pat) ==
    LET i == IndexOf(str, pat)
    IN  IF i = 0 THEN str ELSE SubSeq(str, 1, i - 1) \o SubSeq(str, i + Len(pat), Len(str))

\* str.split(sep) for a separator of one character.
RECURSIVE Split(_, _)
Split(str, sep) ==
    LET i == IndexOf(str, <<sep>>)
    IN  IF i = 0 THEN <<str>>
        ELSE <<SubSeq(str, 1, i - 1)>> \o Split(SubSeq(str, i + 1, Len(str)), sep)

\* The value of a string of decimal digits.
RECURSIVE DigitsValue(_)
DigitsValue(ds) ==
    IF ds = << >> THEN 0 ELSE 10 * DigitsValue(SubSeq(ds, 1, Len(ds) - 1)) + DigitOf(ds[Len(ds)])

\* parseInt(str, 10): leading blanks and a sign are skipped, the longest
\* prefix of digits is the value, and without a digit the value is NaN.
ParseInt(str) ==
    LET B  == {i \in 1..Len(str) : str[i] # " "}
        b  == IF B = {} THEN Len(str) + 1 ELSE CHOOSE i \in B : \A k \in B : i <= k
        neg == b <= Len(str) /\ str[b] = "-"
        f  == IF b <= Len(str) /\ str[b] \in {"+", "-"} THEN b + 1 ELSE b
        E  == {i \in f..Len(str) : ~IsDigit(str[i])}
        e  == IF E = {} THEN Len(str) + 1 ELSE CHOOSE i \in E : \A k \in E : i <= k
        v  == DigitsValue(SubSeq(str, f, e - 1))
    IN  IF e = f THEN NaN ELSE Num(IF neg THEN 0 - v ELSE v)

\* Math.min(a, b): NaN when an argument is NaN.
MathMin(a, b) == IF a = NaN \/ b = NaN THEN NaN ELSE Num(IF a[1] <= b[1] THEN a[1] ELSE b[1])

\* An optional string is falsy when it is undefined or empty.
Falsy(opt) == opt = << >> \/ opt[1] = << >>

bytesEq == <<"b", "y", "t", "e", "s", "=">>
bytesSp == <<"b", "y", "t", "e", "s", " ">>

\* `const chunkSize = 1000000`
chunkSize == 1000000

\* Mutant of ParseRange: the end is not limited to the last byte.
ParseRangeNoClamp(range, contentLength) ==
    LET rangeHeader == RemoveFirst(range, bytesEq)
        parts    == Split(rangeHeader, "-")
        startStr == <<parts[1]>>
        endStr   == IF Len(parts) >= 2 THEN <<parts[2]>> ELSE << >>
        start    == IF Falsy(startStr) THEN Num(0) ELSE ParseInt(startStr[1])
    IN  IF start = NaN \/ (contentLength # NaN /\ start[1] >= contentLength[1])
        THEN [reject |-> TRUE]
        ELSE [reject |-> FALSE, start |-> start,
              end |-> IF Falsy(endStr)
                      THEN Num(start[1] + chunkSize - 1)
                      ELSE ParseInt(endStr[1])]

\* Mutant of ParseRange: `start > contentLength`.
ParseRangeOffByOne(range, contentLength) ==
    LET rangeHeader == RemoveFirst(range, bytesEq)
        parts    == Split(rangeHeader, "-")
        startStr == <<parts[1]>>
        endStr   == IF Len(parts) >= 2 THEN <<parts[2]>> ELSE << >>
        start    == IF Falsy(startStr) THEN Num(0) ELSE ParseInt(startStr[1])
        last     == IF contentLength = NaN THEN NaN ELSE Num(contentLength[1] - 1)
    IN  IF start = NaN \/ (contentLength # NaN /\ start[1] > contentLength[1])
        THEN [reject |-> TRUE]
        ELSE [reject |-> FALSE, start |-> start,
              end |-> MathMin(IF Falsy(endStr)
                              THEN MathMin(Num(start[1] + chunkSize - 1), last)
                              ELSE ParseInt(endStr[1]),
                              last)]

\* Lines 185-195: the Range header of the request, parsed against the length
\* the HEAD request resolved.  reject: the 416 branch.
ParseRange(range, contentLength) ==
    LET rangeHeader == RemoveFirst(range, bytesEq)
        parts    == Split(rangeHeader, "-")
        startStr == <<parts[1]>>
        endStr   == IF Len(parts) >= 2 THEN <<parts[2]>> ELSE << >>
        start    == IF Falsy(startStr) THEN Num(0) ELSE ParseInt(startStr[1])
        last     == IF contentLength = NaN THEN NaN ELSE Num(contentLength[1] - 1)
    IN  IF start = NaN \/ (contentLength # NaN /\ start[1] >= contentLength[1])
        THEN [reject |-> TRUE]
        ELSE [reject |-> FALSE, start |-> start,
              end |-> MathMin(IF Falsy(endStr)
                              THEN MathMin(Num(start[1] + chunkSize - 1), last)
                              ELSE ParseInt(endStr[1]),
                              last)]

\* Mutant of UpstreamRange: `bytes=${start}-`.
UpstreamRangeOpenEnd(r) == bytesEq \o JsStr(r.start) \o <<"-">>

\* The Range header of the upstream GET: `bytes=${start}-${end}`.
UpstreamRange(r) == bytesEq \o JsStr(r.start) \o <<"-">> \o JsStr(r.end)

----------------------------------------------------------------------------
(* The origin the upstream requests go to: a server that holds the video   *)
(* as a resource of `total` bytes, reports its length, and honours Range   *)
(* on GET as RFC 7233 says (a range it cannot parse, or one whose last     *)
(* position is before its first, is ignored; a first position at or after  *)
(* the end is answered with 416).                                          *)

AllDigits(str) == \A i \in DOMAIN str : IsDigit(str[i])

\* The response to HEAD, as the callback of line 125 reads it.
OriginHead(total) ==
    [ contentLength |-> <<NumStr(total)>>, contentType |-> <<"video/mp4">> ]

OriginFull(total) ==
    [ statusCode |-> 200, contentType |-> <<"video/mp4">>, acceptRanges |-> <<"bytes">>,
      contentRange |-> << >>, contentLength |-> <<NumStr(total)>>, body |-> total ]

\* The response to GET with the optional Range header, as the callbacks of
\* lines 153 and 212 read it.
OriginGet(total, range) ==
    IF range = << >> THEN OriginFull(total)
    ELSE LET parts == Split(SubSeq(range[1], Len(bytesEq) + 1, Len(range[1])), "-")
             ok    == /\ IndexOf(range[1], bytesEq) = 1
                      /\ Len(parts) = 2
                      /\ parts[1] # << >>
                      /\ AllDigits(parts[1])
                      /\ AllDigits(parts[2])
             first == DigitsValue(parts[1])
             last  == IF parts[2] = << >> \/ DigitsValue(parts[2]) > total - 1
                      THEN total - 1 ELSE DigitsValue(parts[2])
         IN  IF ~ok \/ (parts[2] # << >> /\ DigitsValue(parts[2]) < first)
             THEN OriginFull(total)
             ELSE IF first >= total
             THEN [ statusCode |-> 416, contentType |-> << >>, acceptRanges |-> <<"bytes">>,
                    contentRange |-> <<bytesSp \o <<"*", "/">> \o NumStr(total)>>,
                    contentLength |-> <<NumStr(0)>>, body |-> 0 ]
             ELSE [ statusCode |-> 206, contentType |-> <<"video/mp4">>,
                    acceptRanges |-> <<"bytes">>,
                    contentRange |-> <<bytesSp \o NumStr(first) \o <<"-">> \o NumStr(last)
                                         \o <<"/">> \o NumStr(total)>>,
                    contentLength |-> <<NumStr(last - first + 1)>>,
                    body |-> last - first + 1 ]

----------------------------------------------------------------------------
(* One call of streamVideo.  Its tasks: the call up to the await of        *)
(* getFileDetails; the continuation up to the await of the HEAD request;   *)
(* the continuation that answers 416 or sends the GET; the callback of     *)
(* the GET, which relays the response; and the error handlers.             *)

\* `opt || dflt` on an optional string.
OrElse(opt, dflt) == IF Falsy(opt) THEN dflt ELSE opt[1]

\* `opt || dflt` on an optional header whose value is one of a few non-empty
\* tokens (a media type, `bytes`), kept as one value.
OrToken(opt, dflt) == IF opt = << >> THEN dflt ELSE opt[1]

\* res.status(code).json({error: message})
JsonError(code, message) ==
    [ status |-> code, contentType |-> "application/json", acceptRanges |-> << >>,
      contentRange |-> << >>, contentLength |-> << >>, bytes |-> 0, error |-> message ]

\* Lines 189-192: the headers set so far, Content-Range, status 416, no body.
RangeNotSatisfiable(contentLength) ==
    [ status |-> 416, contentType |-> "video/mp4", acceptRanges |-> <<"bytes">>,
      contentRange |-> <<bytesSp \o <<"*", "/">> \o JsStr(contentLength)>>,
      contentLength |-> << >>, bytes |-> 0, error |-> "" ]

\* Mutant of FullRequest: the GET of the no-range branch asks for a chunk.
FullRequestChunk == [method |-> "GET", range |-> <<bytesEq \o <<"0", "-">>>>]

\* Lines 140-151: the GET of the no-range branch carries no Range header.
FullRequest == [method |-> "GET", range |-> << >>]

\* Lines 198-210: the GET of the range branch.
RangeRequest(r) == [method |-> "GET", range |-> <<UpstreamRange(r)>>]

\* Lines 136-239: the continuation after the HEAD response headRes.
AfterHead(call, headRes) ==
    LET contentLength == ParseInt(OrElse(headRes.contentLength, <<"0">>))
        contentType   == OrToken(headRes.contentType, "video/mp4")
        c == [call EXCEPT !.contentLength = contentLength, !.contentType = contentType]
    IN  IF Falsy(call.range)
        THEN [c EXCEPT !.pc = "get", !.sent = Append(@, FullRequest)]
        ELSE LET r == ParseRange(call.range[1], contentLength)
             IN  IF r.reject
                 THEN [c EXCEPT !.pc = "done", !.resp = <<RangeNotSatisfiable(contentLength)>>]
                 ELSE [c EXCEPT !.pc = "get", !.sent = Append(@, RangeRequest(r))]

\* Lines 153-168 and 212-228: the callback of the GET relays the response.
OnUpstreamResponse(call, upstreamRes) ==
    LET ranged == ~Falsy(call.range)
        relayed ==
          [ status        |-> upstreamRes.statusCode,
            contentType   |-> OrToken(upstreamRes.contentType, call.contentType),
            acceptRanges  |-> IF ranged \/ upstreamRes.acceptRanges = << >>
                              THEN <<"bytes">> ELSE upstreamRes.acceptRanges,
            contentRange  |-> IF ranged /\ ~Falsy(upstreamRes.contentRange)
                              THEN upstreamRes.contentRange ELSE << >>,
            contentLength |-> IF Falsy(upstreamRes.contentLength)
                              THEN << >> ELSE upstreamRes.contentLength,
            bytes         |-> upstreamRes.body,
            error         |-> "" ]
    IN  [call EXCEPT !.pc = "done", !.resp = <<relayed>>]

\* The lengths of the resource at the origin.
Totals == {1000, 2500000}

\* The Range headers of the requests: `bytes=<start>-<end>` with each part a
\* number, empty or not a number, such a header followed by a second range,
\* a header without `-`, one with another unit, and the empty string.
StartNums == {0, 50, 1000, 1500000}
EndNums == {10, 99, 999, 1999999, 5000000}
NotANumber == <<"x">>
StartStrs == {NumStr(n) : n \in StartNums} \cup {<< >>, NotANumber}
EndStrs == {NumStr(n) : n \in EndNums} \cup {<< >>, NotANumber}
SecondRange == <<",", "2", "0", "-", "3", "0">>
RangeOf(startStr, endStr) == bytesEq \o startStr \o <<"-">> \o endStr
RangeHeaders ==
    {RangeOf(a, b) : a \in StartStrs, b \in EndStrs}
    \cup {RangeOf(a, b) \o SecondRange : a \in StartStrs, b \in EndStrs \ {<< >>}}
    \cup {bytesEq \o <<"5">>, <<"i", "t", "e", "m", "s", "=", "0", "-", "5">>, << >>}

\* A request arrives: lines 64-76, up to the await of getFileDetails.
Request(fileId, range, total) ==
    /\ sv.pc = "idle"
    /\ sv' = IF ~fileId
             THEN [sv EXCEPT !.pc = "done", !.range = range, !.total = total,
                             !.resp = <<JsonError(400, "File ID is required")>>]
             ELSE [sv EXCEPT !.pc = "details", !.fileId = TRUE, !.range = range,
                             !.total = total]
    /\ UNCHANGED <<queueVars, instanceVars, fnVars, px, lv, rv>>

\* getFileDetails settles: lines 78-134, up to the await of the HEAD request.
FileDetails(outcome) ==
    /\ sv.pc = "details"
    /\ sv' = CASE outcome = "null" ->
                    [sv EXCEPT !.pc = "done", !.resp = <<JsonError(404, "File not found")>>]
               [] outcome = "notVideo" ->
                    [sv EXCEPT !.pc = "done", !.resp = <<JsonError(404, "File is not a video")>>]
               [] outcome \in {"video", "apiError"} ->
                    [sv EXCEPT !.pc = "head",
                               !.sent = Append(@, [method |-> "HEAD", range |-> << >>])]
    /\ UNCHANGED <<queueVars, instanceVars, fnVars, px, lv, rv>>

\* The origin answers the HEAD request.
HeadResponse ==
    /\ sv.pc = "head"
    /\ sv' = AfterHead(sv, OriginHead(sv.total))
    /\ UNCHANGED <<queueVars, instanceVars, fnVars, px, lv, rv>>

\* The HEAD request fails: headReq.on('error', reject), then the outer catch.
HeadError ==
    /\ sv.pc = "head"
    /\ sv' = [sv EXCEPT !.pc = "done", !.error = "head",
                         !.resp = <<JsonError(500, "Failed to stream video")>>]
    /\ UNCHANGED <<queueVars, instanceVars, fnVars, px, lv, rv>>

\* The origin answers the GET request.
GetResponse ==
    /\ sv.pc = "get"
    /\ sv' = OnUpstreamResponse(sv, OriginGet(sv.total, sv.sent[Len(sv.sent)].range))
    /\ UNCHANGED <<queueVars, instanceVars, fnVars, px, lv, rv>>

\* The GET request fails before a response: videoReq.on('error', ...).
GetError ==
    /\ sv.pc = "get"
    /\ sv' = [sv EXCEPT !.pc = "done", !.error = "get",
                         !.resp = <<JsonError(500, "Video streaming failed")>>]
    /\ UNCHANGED <<queueVars, instanceVars, fnVars, px, lv, rv>>

StreamNext ==
    \/ \E fileId \in BOOLEAN, total \in Totals,
           range \in {<< >>} \cup {<<h>> : h \in RangeHeaders} : Request(fileId, range, total)
    \/ \E outcome \in {"null", "notVideo", "video", "apiError"} : FileDetails(outcome)
    \/ HeadResponse
    \/ HeadError
    \/ GetResponse
    \/ GetError

StreamSpec == Init /\ [][StreamNext]_vars

----------------------------------------------------------------------------
(* VideoStreamService.proxyImageKitVideo of src/unnamed/part_009.          *)
(*                                                                         *)
(* A URL is the record [host, file] of its hostname and of the last        *)
(* segment of its path ("" when the path ends in a slash).  The query      *)
(* parameter `url` is one of four kinds: missing, holding a malformed      *)
(* percent escape (such as "%", which is no URL either), not parsable as a *)
(* URL for another reason, or a URL.  An error message or                  *)
(* code is the sequence of its words.  The actions are the tasks of the    *)
(* event loop: the call up to `await fetchUpstream`, the callbacks of      *)
(* https.request (response, error, timeout), the back-off timer, the end   *)
(* of the pipeline and the close event of the client connection.           *)

ImageKitHost == "ik.imagekit.io"
EndpointHost == "media.example.com"
OtherHost == "cdn.example.net"
Hosts == {ImageKitHost, EndpointHost, OtherHost}
Files == {"", "clip.mp4"}

Url(host, file) == [host |-> host, file |-> file]

RawUrls ==
    {[kind |-> k, host |-> "", file |-> ""] : k \in {"missing", "malformedEscape", "unparsable"}}
    \cup {[kind |-> "url", host |-> h, file |-> f] : h \in Hosts, f \in Files}

\* `new URL(urlStr)`: << >> when it throws, <<url>> otherwise.
NewURL(raw) == IF raw.kind = "url" THEN <<Url(raw.host, raw.file)>> ELSE << >>

\* `new URL(resp.headers.location, current)`: an absolute Location stands for
\* itself, a relative one is resolved against the current URL.
ResolveURL(location, current) ==
    CASE location.kind = "absolute" -> <<Url(location.host, location.file)>>
      [] location.kind = "relative" -> <<Url(current.host, location.file)>>
      [] OTHER -> << >>

\* The regular expression /ENETUNREACH|ENOTFOUND|ECONNREFUSED|ETIMEDOUT|EAI_AGAIN/i.
NetworkCodes == {"ENETUNREACH", "ENOTFOUND", "ECONNREFUSED", "ETIMEDOUT", "EAI_AGAIN"}
RegexTest(words) == \E i \in 1..Len(words) : words[i] \in NetworkCodes

\* Errors of node: a failed system call carries its code, repeated in the message.
SystemError(syscall, code) == [code |-> <<code>>, message |-> <<syscall, code>>]
UpstreamTimeoutError == [code |-> << >>, message |-> <<"Upstream", "timeout">>]
InvalidUrlError == [code |-> <<"ERR_INVALID_URL">>, message |-> <<"Invalid", "URL">>]
MalformedUriError == [code |-> << >>, message |-> <<"URI", "malformed">>]

redirects == 5
retries == 3
RedirectCodes == {301, 302, 303, 307, 308}

allowedHost(env) == IF env # << >> THEN env[1] ELSE ImageKitHost

HostAllowed(target, env) ==
    target.host = ImageKitHost \/ target.host = allowedHost(env)

ProxyJson(status, message) ==
    [status |-> status, location |-> << >>, error |-> message, piped |-> FALSE]

\* The catch block of proxyImageKitVideo: lines 388-422.
Catch(p, err) ==
    LET msg == err.message
        url == NewURL(p.raw)
        filename == IF url = << >> THEN "" ELSE url[1].file
        q == [p EXCEPT !.pc = "done", !.err = <<err>>]
    IN  IF RegexTest(msg)
        THEN IF filename # ""
             THEN [q EXCEPT !.resp = <<[status |-> 302,
                                        location |-> <<<<"/api/local-videos/", filename>>>>,
                                        error |-> "", piped |-> FALSE]>>]
             ELSE [q EXCEPT !.resp = <<ProxyJson(502, "Network unreachable")>>]
        ELSE [q EXCEPT !.resp = <<ProxyJson(500, "Internal server error")>>]

\* go(current, left, retryCount) of fetchUpstream: one https.request with the
\* `method` and `headers` that fetchUpstream was called with.
go(p, current, left, retryCount, cause) ==
    [p EXCEPT !.pc = "fetch", !.current = <<current>>, !.left = left,
              !.retryCount = retryCount, !.requests = @ + 1, !.err = << >>,
              !.request = <<[url |-> current, method |-> "GET", range |-> p.range,
                             cause |-> cause]>>]

FirstRequest == [kind |-> "first", status |-> 0, location |-> << >>]
RetryRequest == [kind |-> "retry", status |-> 0, location |-> << >>]

\* Lines 362-387: what follows `await fetchUpstream(...)` once it resolved.
\* A pipeline into the response of a closed connection fails at once, and a
\* failing pipeline destroys its streams.
Relay(p, upstream) ==
    LET q == [p EXCEPT !.upstream = <<[statusCode |-> upstream.statusCode,
                                       hasLocation |-> upstream.location # << >>]>>]
        head == [status |-> upstream.statusCode, location |-> << >>, error |-> "",
                 piped |-> FALSE]
    IN  IF upstream.statusCode \notin {200, 206}
        THEN [q EXCEPT !.pc = "done",
                       !.resp = <<ProxyJson(upstream.statusCode, upstream.statusMessage)>>]
        ELSE IF p.closed
             THEN [q EXCEPT !.pc = "done", !.destroyed = TRUE, !.resp = <<head>>]
             ELSE [q EXCEPT !.pc = "piping", !.resp = <<head>>]

CanFollowUnbounded(sc, location, left) ==
    sc \in RedirectCodes /\ location # << >>

CanFollow(sc, location, left) ==
    sc \in RedirectCodes /\ location # << >> /\ left > 0

\* The response callback of https.request: lines 328-340.
OnResponse(p, resp) ==
    IF CanFollow(resp.statusCode, resp.location, p.left)
    THEN LET next == ResolveURL(resp.location[1], p.current[1])
         IN  IF next = << >>
             THEN Catch(p, InvalidUrlError)
             ELSE go([p EXCEPT !.followed = @ + 1], next[1], p.left - 1, p.retryCount,
                     [kind |-> "redirect", status |-> resp.statusCode,
                      location |-> <<[to |-> resp.location[1], from |-> p.current[1]]>>])
    ELSE Relay(p, resp)

isNetworkError(err) == RegexTest(IF err.code # << >> THEN err.code ELSE err.message)

ShouldRetryOnceMore(err, retryCount) == isNetworkError(err) /\ retryCount >= 0

ShouldRetry(err, retryCount) == isNetworkError(err) /\ retryCount > 0

\* r.on('error', ...): lines 342-350.
OnError(p, err) ==
    LET q == [p EXCEPT !.failed = @ + 1]
    IN  IF ShouldRetry(err, p.retryCount)
        THEN [q EXCEPT !.pc = "backoff", !.err = <<err>>,
                       !.delay = 1000 * (4 - p.retryCount)]
        ELSE Catch(q, err)

Locations ==
    {[kind |-> "absolute", host |-> h, file |-> "moved.mp4"] : h \in {ImageKitHost, OtherHost}}
    \cup {[kind |-> "relative", host |-> "", file |-> "moved.mp4"],
          [kind |-> "invalid", host |-> "", file |-> ""]}
StatusCodes == RedirectCodes \cup {200, 206, 404}
StatusMessage(sc) ==
    CASE sc = 200 -> "OK" [] sc = 206 -> "Partial Content" [] sc = 301 -> "Moved Permanently"
      [] sc = 302 -> "Found" [] sc = 303 -> "See Other" [] sc = 307 -> "Temporary Redirect"
      [] sc = 308 -> "Permanent Redirect" [] OTHER -> "Not Found"
UpstreamErrors ==
    {SystemError("connect", "ECONNREFUSED"), SystemError("getaddrinfo", "ENOTFOUND"),
     SystemError("read", "ECONNRESET")}

\* A request arrives: lines 278-362, up to `await fetchUpstream(...)`.
ProxyRequest(method, raw, env, range, localCopy) ==
    /\ px.pc = "idle"
    /\ LET p == [px EXCEPT !.method = method, !.raw = raw, !.env = env,
                           !.range = range, !.localCopy = localCopy]
           target == NewURL(raw)
       IN  px' = CASE raw.kind = "malformedEscape" -> Catch(p, MalformedUriError)
                   [] raw.kind = "missing" ->
                        [p EXCEPT !.pc = "done", !.resp = <<ProxyJson(400, "URL is required")>>]
                   [] target = << >> ->
                        [p EXCEPT !.pc = "done", !.resp = <<ProxyJson(400, "Invalid URL")>>]
                   [] ~HostAllowed(target[1], env) ->
                        [p EXCEPT !.pc = "done",
                                  !.resp = <<ProxyJson(400, "URL host not allowed")>>]
                   [] method = "OPTIONS" ->
                        [p EXCEPT !.pc = "done", !.resp = <<ProxyJson(204, "")>>]
                   [] OTHER -> go(p, target[1], redirects, retries, FirstRequest)
    /\ UNCHANGED <<queueVars, instanceVars, fnVars, sv, lv, rv>>

\* The upstream answers the request in flight.
UpstreamResponds(sc, location) ==
    /\ px.pc = "fetch"
    /\ px' = OnResponse(px, [statusCode |-> sc, location |-> location,
                             statusMessage |-> StatusMessage(sc)])
    /\ UNCHANGED <<queueVars, instanceVars, fnVars, sv, lv, rv>>

\* The request in flight fails.
UpstreamError(err) ==
    /\ px.pc = "fetch"
    /\ px' = OnError(px, err)
    /\ UNCHANGED <<queueVars, instanceVars, fnVars, sv, lv, rv>>

\* The socket of the request in flight stays idle for 15 s: line 341 destroys
\* the request with new Error('Upstream timeout'), which its error handler gets.
UpstreamTimeout ==
    /\ px.pc = "fetch"
    /\ px' = OnError(px, UpstreamTimeoutError)
    /\ UNCHANGED <<queueVars, instanceVars, fnVars, sv, lv, rv>>

\* The timer of line 346 fires.
BackoffFires ==
    /\ px.pc = "backoff"
    /\ px' = go([px EXCEPT !.retried = @ + 1, !.delay = 0], px.current[1], px.left,
                px.retryCount - 1, RetryRequest)
    /\ UNCHANGED <<queueVars, instanceVars, fnVars, sv, lv, rv>>

\* The upstream body ends and the pipeline ends the response.
PipelineEnds ==
    /\ px.pc = "piping"
    /\ px' = [px EXCEPT !.pc = "done", !.resp[1].piped = TRUE]
    /\ UNCHANGED <<queueVars, instanceVars, fnVars, sv, lv, rv>>

\* The client closes its connection.  The handler of line 387 exists only
\* once the upstream response is being piped.
ClientClose ==
    /\ px.pc \in {"fetch", "backoff", "piping"}
    /\ ~px.closed
    /\ px' = IF px.pc = "piping"
             THEN [px EXCEPT !.pc = "done", !.closed = TRUE, !.destroyed = TRUE]
             ELSE [px EXCEPT !.closed = TRUE]
    /\ UNCHANGED <<queueVars, instanceVars, fnVars, sv, lv, rv>>

ProxyNext ==
    \/ \E method \in {"GET", "OPTIONS"}, raw \in RawUrls, env \in {<< >>, <<EndpointHost>>},
          range \in {<< >>, <<"bytes=0-99">>}, localCopy \in BOOLEAN :
            ProxyRequest(method, raw, env, range, localCopy)
    \/ \E sc \in StatusCodes, location \in {<< >>} \cup {<<l>> : l \in Locations} :
            UpstreamResponds(sc, location)
    \/ \E err \in UpstreamErrors : UpstreamError(err)
    \/ UpstreamTimeout
    \/ BackoffFires
    \/ PipelineEnds
    \/ ClientClose

ProxySpec == Init /\ [][ProxyNext]_vars

----------------------------------------------------------------------------
(* The route GET /local-videos/:filename of src/unnamed/part_008.          *)
(*                                                                         *)
(* Paths are strings, that is sequences of characters, so that the         *)
(* comparison filePath.startsWith(localStorageDir) is the comparison of    *)
(* characters it is in the code.  The parameter filename is the decoded    *)
(* path segment of the request: an escaped slash (%2F) arrives as a slash. *)
(* The handler runs in one task; the body is piped afterwards.             *)

Slash == "/"
cwd == <<"/", "a", "p", "p">>
uploads == <<"u", "p", "l", "o", "a", "d", "s">>
videos == <<"v", "i", "d", "e", "o", "s">>
DotDot == <<".", ".">>

\* The segments of a path after `.` and `..` are resolved, from left to right.
RECURSIVE ResolveSegments(_, _)
ResolveSegments(segs, stack) ==
    IF segs = << >> THEN stack
    ELSE LET seg == Head(segs)
         IN  CASE seg = << >> \/ seg = <<".">> -> ResolveSegments(Tail(segs), stack)
               [] seg = DotDot ->
                    ResolveSegments(Tail(segs),
                                    IF stack = << >> THEN stack
                                    ELSE SubSeq(stack, 1, Len(stack) - 1))
               [] OTHER -> ResolveSegments(Tail(segs), Append(stack, seg))

RECURSIVE JoinSegments(_)
JoinSegments(segs) ==
    IF segs = << >> THEN << >> ELSE <<Slash>> \o Head(segs) \o JoinSegments(Tail(segs))

\* path.normalize of an absolute POSIX path; a trailing slash is kept.
Normalize(str) ==
    LET segs == ResolveSegments(Split(str, Slash), << >>)
        body == JoinSegments(segs)
    IN  IF segs = << >> THEN <<Slash>>
        ELSE IF str[Len(str)] = Slash THEN body \o <<Slash>> ELSE body

\* path.join(a, b) of an absolute path a and a non-empty b.
PathJoin(a, b) == Normalize(a \o <<Slash>> \o b)

localStorageDir == PathJoin(PathJoin(cwd, uploads), videos)

StartsWith(str, prefix) ==
    Len(str) >= Len(prefix) /\ SubSeq(str, 1, Len(prefix)) = prefix

\* Line 117: the test that lets the request pass.
InsideStorage(filePath) == StartsWith(filePath, localStorageDir)

\* The names and the files of the environment.
clipName == <<"c", ".", "m", "p", "4">>
missingName == <<"x", ".", "m", "p", "4">>
siblingDir == videos \o <<"-", "o", "l", "d">>
secretName == <<"k", "e", "y">>
Filenames ==
    { clipName,
      missingName,
      DotDot \o <<Slash>> \o videos \o <<Slash>> \o clipName,
      DotDot \o <<Slash>> \o siblingDir \o <<Slash>> \o clipName,
      DotDot \o <<Slash>> \o siblingDir \o <<Slash>> \o missingName,
      DotDot \o <<Slash>> \o DotDot \o <<Slash>> \o secretName,
      DotDot \o <<Slash>> \o DotDot \o <<Slash>> \o DotDot \o <<Slash>> \o DotDot
        \o <<Slash>> \o secretName }
ExistingFiles ==
    { PathJoin(localStorageDir, clipName),
      PathJoin(PathJoin(PathJoin(cwd, uploads), siblingDir), clipName),
      PathJoin(cwd, secretName),
      <<Slash>> \o secretName }
existsSync(filePath) == filePath \in ExistingFiles

\* The headers of lines 133-136 stay on the response when the catch block
\* answers after them.
LocalJson(code, message, headersSet) ==
    [JsonError(code, message) EXCEPT
        !.acceptRanges = IF headersSet THEN <<"bytes">> ELSE << >>]

\* The number of bytes a read stream of options {start, end} delivers from a
\* file of fileSize bytes.
Delivered(start, end, fileSize) ==
    LET last == IF end < fileSize - 1 THEN end ELSE fileSize - 1
    IN  IF last < start THEN 0 ELSE last - start + 1

\* Lines 138-157: the branch of a request with a Range header.
\* fs.createReadStream throws for an option that is no integer and for
\* start > end; the catch block of line 159 answers then.
ServeRange(range, fileSize) ==
    LET parts == Split(RemoveFirst(range, bytesEq), "-")
        start == ParseInt(OrElse(<<parts[1]>>, <<"0">>))
        end   == IF Len(parts) >= 2 /\ parts[2] # << >>
                 THEN ParseInt(parts[2]) ELSE Num(fileSize - 1)
    IN  IF start = NaN \/ end = NaN \/ start[1] < 0 \/ end[1] < 0 \/ start[1] > end[1]
        THEN LocalJson(500, "Failed to serve video", TRUE)
        ELSE [ status |-> 206, contentType |-> "video/mp4", acceptRanges |-> <<"bytes">>,
               contentRange |-> <<bytesSp \o JsStr(start) \o <<"-">> \o JsStr(end)
                                  \o <<Slash>> \o NumStr(fileSize)>>,
               contentLength |-> <<Num((end[1] - start[1]) + 1)>>,
               bytes |-> Delivered(start[1], end[1], fileSize), error |-> "" ]

\* Lines 158-163: the whole file.
ServeFile(fileSize) ==
    [ status |-> 200, contentType |-> "video/mp4", acceptRanges |-> <<"bytes">>,
      contentRange |-> << >>, contentLength |-> <<Num(fileSize)>>,
      bytes |-> fileSize, error |-> "" ]

\* A request arrives: the handler of lines 110-163, with files of `total` bytes.
LocalVideoRequest(filename, range, total) ==
    /\ lv.pc = "idle"
    /\ LET filePath == PathJoin(localStorageDir, filename)
           call == [lv EXCEPT !.pc = "done", !.filename = filename, !.range = range,
                              !.total = total, !.filePath = filePath]
       IN  lv' = CASE ~InsideStorage(filePath) ->
                        [call EXCEPT !.resp = <<LocalJson(403, "Access denied", FALSE)>>]
                   [] ~existsSync(filePath) ->
                        [call EXCEPT !.resp = <<LocalJson(404, "Video not found", FALSE)>>]
                   [] range # << >> /\ range[1] # << >> ->
                        LET r == ServeRange(range[1], total)
                        IN  [call EXCEPT !.resp = <<r>>,
                                         !.opened = IF r.status = 206 THEN <<filePath>>
                                                    ELSE << >>]
                   [] OTHER ->
                        [call EXCEPT !.resp = <<ServeFile(total)>>, !.opened = <<filePath>>]
    /\ UNCHANGED <<queueVars, instanceVars, fnVars, sv, px, rv>>

LocalNext ==
    \E filename \in Filenames, total \in Totals,
       range \in {<< >>} \cup {<<h>> : h \in RangeHeaders} :
        LocalVideoRequest(filename, range, total)

LocalSpec == Init /\ [][LocalNext]_vars

----------------------------------------------------------------------------
(* recordView of src/unnamed/part_003, for one authenticated user and one  *)
(* reel that exists.  rv.view is the document of the views collection for  *)
(* this user and reel (<< >> while there is none, <<viewDuration>> after), *)
(* rv.viewsCount the counter of the reel.  A call runs from one await to   *)
(* the next in each action; the calls of ViewSpec follow one another.      *)
(* Durations are whole milliseconds; a field of the body that is absent    *)
(* is << >>.                                                               *)

MaxViewCalls == 3
Durations == {<< >>, <<0 - 1000>>, <<0>>, <<3000>>, <<6000>>}
TotalDurations == {<< >>, <<0>>, <<4000>>, <<10000>>}

\* `Math.max(0, Number(x) || 0)` with the default `x = 0` of an absent field.
ClampMs(opt) == IF opt = << >> \/ opt[1] <= 0 THEN 0 ELSE opt[1]

MaxMs(a, b) == IF a >= b THEN a ELSE b

\* reachedThreshold(ms) with thresholdMs = totalMs > 0 ? totalMs * 0.5 : 2000,
\* compared after doubling both sides.
reachedThreshold(ms, totalMs) ==
    IF totalMs > 0 THEN 2 * ms >= totalMs ELSE ms >= 2000

\* A request arrives: lines 428-432, up to `await foodModel.findById`.
RecordView(viewDuration, totalDuration) ==
    /\ rv.call.pc = "idle"
    /\ rv.started < MaxViewCalls
    /\ rv' = [rv EXCEPT !.started = @ + 1, !.resp = << >>,
                        !.call = [NoCall EXCEPT !.pc = "findFood",
                                                !.viewDuration = viewDuration,
                                                !.totalDuration = totalDuration]]
    /\ UNCHANGED <<queueVars, instanceVars, fnVars, sv, px, lv>>

\* The reel is found: lines 433-453, up to `await viewModel.findOne`.
FoodFound ==
    /\ rv.call.pc = "findFood"
    /\ rv' = [rv EXCEPT !.call.pc = "findView",
                        !.call.viewMs = ClampMs(rv.call.viewDuration),
                        !.call.totalMs = ClampMs(rv.call.totalDuration)]
    /\ UNCHANGED <<queueVars, instanceVars, fnVars, sv, px, lv>>

\* findOne resolves: lines 454-480, up to the await of the update or the create.
ViewFound ==
    /\ rv.call.pc = "findView"
    /\ LET c == rv.call
           prevMs == rv.view[1]
           newMs == MaxMs(prevMs, c.viewMs)
       IN  rv' = IF rv.view # << >>
                 THEN [rv EXCEPT !.call.pc = "write", !.call.write = newMs,
                                 !.call.incrementNow =
                                     /\ ~reachedThreshold(prevMs, c.totalMs)
                                     /\ reachedThreshold(newMs, c.totalMs)]
                 ELSE [rv EXCEPT !.call.pc = "write", !.call.write = c.viewMs,
                                 !.call.incrementNow = reachedThreshold(c.viewMs, c.totalMs)]
    /\ UNCHANGED <<queueVars, instanceVars, fnVars, sv, px, lv>>

\* The update or the create is done: up to `await foodModel.findByIdAndUpdate`
\* of line 517, or to the response of lines 529-532.
ViewWritten ==
    /\ rv.call.pc = "write"
    /\ rv' = IF rv.call.incrementNow
             THEN [rv EXCEPT !.view = <<rv.call.write>>, !.call.pc = "increment"]
             ELSE [rv EXCEPT !.view = <<rv.call.write>>, !.call.pc = "idle",
                             !.resp = <<[status |-> 200, message |-> "View progress updated",
                                         newViewCount |-> rv.viewsCount]>>]
    /\ UNCHANGED <<queueVars, instanceVars, fnVars, sv, px, lv>>

\* `$inc: { viewsCount: 1 }` is done: lines 517-527.
ViewCounted ==
    /\ rv.call.pc = "increment"
    /\ rv' = [rv EXCEPT !.viewsCount = @ + 1, !.call.pc = "idle",
                        !.resp = <<[status |-> 200,
                                    message |-> "View recorded at 50% threshold",
                                    newViewCount |-> rv.viewsCount + 1]>>]
    /\ UNCHANGED <<queueVars, instanceVars, fnVars, sv, px, lv>>

ViewNext ==
    \/ \E viewDuration \in Durations, totalDuration \in TotalDurations :
          RecordView(viewDuration, totalDuration)
    \/ FoodFound
    \/ ViewFound
    \/ ViewWritten
    \/ ViewCounted

ViewSpec == Init /\ [][ViewNext]_vars

----------------------------------------------------------------------------
(* Properties *)

Ids == DOMAIN heap
Pending == {j \in Ids : heap[j].status = "pending"}
Running == {j \in Ids : heap[j].status = "processing"}
InQueue(j) == \E i \in DOMAIN jobs : jobs[i] = j

C2_SelectsLowestPriorityFifo ==
    sel # << >> =>
        LET s == sel[1].job
            P == sel[1].pending
        IN  /\ s \in P
            /\ \A k \in P :
                  \/ heap[s].priority < heap[k].priority
                  \/ /\ heap[s].priority = heap[k].priority
                     /\ heap[s].createdAt <= heap[k].createdAt

\* A retried job of priority 1 is selected ahead of a pending job of priority 5
\* that was added before it.
C2_Witness ==
    /\ sel # << >>
    /\ heap[sel[1].job].attempts >= 2
    /\ heap[sel[1].job].priority = 1
    /\ \E k \in sel[1].pending :
          /\ heap[k].priority = 5
          /\ heap[k].createdAt < heap[sel[1].job].createdAt

\* C3: the job add() returns has status 'pending' and attempts 0 when add()
\* returns, whether the queue was idle or processing.
C3_AddReturnsPending ==
    addReturn # << >> =>
        /\ addReturn[1].status = "pending"
        /\ addReturn[1].attempts = 0

\* C4: a job is created pending, its status changes only along
\* pending -> processing -> {completed, pending, failed}, and a completed or
\* failed job keeps its status.
AllowedTransitions ==
    { <<"<new>", "pending">>, <<"pending", "processing">>, <<"processing", "completed">>,
      <<"processing", "pending">>, <<"processing", "failed">> }

C4_Step ==
    /\ \A i \in DOMAIN steplog' : <<steplog'[i].from, steplog'[i].to>> \in AllowedTransitions
    /\ \A j \in Ids : IsTerminal(heap[j].status) => heap'[j].status = heap[j].status
    /\ \A j \in DOMAIN heap' \ Ids :
          \E i \in DOMAIN steplog' : steplog'[i].job = j /\ steplog'[i].from = "<new>"

C4_StatusTransitions == [][C4_Step]_vars

\* One task took a job from processing back to pending and on to processing
\* again, with a completed and a failed job in the queue.
C4_Witness ==
    /\ \E i \in DOMAIN steplog : steplog[i].from = "processing" /\ steplog[i].to = "pending"
    /\ \E i \in DOMAIN steplog : steplog[i].from = "pending" /\ steplog[i].to = "processing"
    /\ \E j \in Ids : heap[j].status = "completed"
    /\ \E j \in Ids : heap[j].status = "failed"

\* C5: a job whose handler fails on every invocation, with maxAttempts N >= 1,
\* is invoked exactly N times and is then failed with attempts = N and the
\* message of its last failure in its error field.
C5_RetryExhaustion ==
    \A j \in Ids :
        LET N == heap[j].maxAttempts IN
        /\ N >= 1
        /\ hist[j].invoked <= N
        /\ hist[j].thrown = N <=> heap[j].status = "failed"
        /\ heap[j].status = "failed" =>
              /\ hist[j].invoked = N
              /\ heap[j].attempts = N
              /\ heap[j].error = hist[j].lastMsg

\* A job with maxAttempts = 3 failed three times, the last time with the
\* second message, and is failed.
C5_Witness ==
    \E j \in Ids :
        /\ heap[j].maxAttempts = 3
        /\ hist[j].thrown = 3
        /\ hist[j].invoked = 3
        /\ heap[j].status = "failed"
        /\ hist[j].lastMsg = "data error 2"

\* C6: a failure with attempts < maxAttempts puts the job back to pending with
\* its attempts kept, so a job that fails k < maxAttempts times and then
\* succeeds is completed with attempts = k + 1.
C6_RetryKeepsAttempts ==
    /\ \A i \in DOMAIN steplog :
          (steplog[i].from = "processing" /\ steplog[i].to = "pending") =>
              /\ steplog[i].attempts = hist[steplog[i].job].thrown
              /\ steplog[i].attempts < heap[steplog[i].job].maxAttempts
    /\ \A j \in Ids :
          /\ (heap[j].status = "pending" /\ hist[j].thrown > 0) =>
                /\ heap[j].attempts = hist[j].thrown
                /\ heap[j].attempts < heap[j].maxAttempts
          /\ (hist[j].thrown > 0 /\ hist[j].thrown < heap[j].maxAttempts) =>
                heap[j].status \in {"pending", "processing", "completed"}
          /\ heap[j].status = "completed" =>
                /\ heap[j].attempts = hist[j].thrown + 1
                /\ hist[j].thrown < heap[j].maxAttempts

\* A job with maxAttempts = 3 failed once and then succeeded: completed, attempts = 2.
C6_Witness ==
    \E j \in Ids :
        /\ heap[j].maxAttempts = 3
        /\ hist[j].thrown = 1
        /\ heap[j].status = "completed"
        /\ heap[j].attempts = 2

\* C7: a failed attempt, also one of an unknown job type, does not stop the
\* loop: when a job is pending after the catch block the same loop goes on and
\* selects one, and otherwise the loop ends the regular way; no pending job is
\* ever left without a loop.
C7_Step ==
    /\ \A i \in DOMAIN loops :
          LET r == loops[i]
              j == r.job
              backToPending == \E n \in DOMAIN steplog' :
                                  steplog'[n].job = j /\ steplog'[n].to = "pending"
          IN  hist'[j].thrown > hist[j].thrown =>
                IF Pending # {} \/ backToPending
                THEN /\ sel' # << >>
                     /\ \E n \in DOMAIN loops' :
                           /\ loops'[n].id = r.id
                           /\ loops'[n].pc = "sleep"
                           /\ loops'[n].job = sel'[1].job
                           /\ heap'[loops'[n].job].status = "processing"
                ELSE /\ ~processing'
                     /\ \A n \in DOMAIN loops' : loops'[n].id # r.id
    /\ (\E k \in DOMAIN heap' : heap'[k].status = "pending") =>
          (processing' /\ Len(loops') >= 1)

C7_FailureKeepsLoop == [][C7_Step]_vars

\* In one task a job of an unknown type failed for good and the loop selected
\* another job.
C7_Witness ==
    /\ Len(steplog) = 2
    /\ steplog[1].to = "failed"
    /\ heap[steplog[1].job].type = "bogus"
    /\ steplog[2].to = "processing"
    /\ steplog[2].job # steplog[1].job
    /\ Len(loops) = 1

\* C8: with finitely many add() calls and timers that fire, the queue comes to
\* rest again and again: every job added so far is completed or failed, the
\* loop has exited (isProcessing = false), and getStats() shows completed >= 1
\* when a handler has succeeded.
Quiescent ==
    /\ ~getStats.isProcessing
    /\ \A j \in 1..(nextId - 1) : j \in Ids /\ IsTerminal(heap[j].status)
    /\ (\E j \in Ids : hist[j].invoked > hist[j].thrown) => getStats.completed >= 1

C8_EventuallyDone == []<>Quiescent

\* All jobs of the run are done, one completed and one failed, and the queue is idle.
C8_Witness ==
    /\ nextId > MaxRetryJobs
    /\ \A j \in Ids : IsTerminal(heap[j].status)
    /\ getStats.completed >= 1
    /\ getStats.failed >= 1
    /\ ~getStats.isProcessing

\* C9: isProcessing is true exactly while a loop is active, and when it is
\* false the queue has no pending and no processing job.
C9_IdleMeansNoWork ==
    /\ getStats.isProcessing <=> Len(loops) >= 1
    /\ ~getStats.isProcessing =>
          /\ getStats.pending = 0
          /\ getStats.processing = 0
          /\ Pending = {}
          /\ Running = {}

\* The queue is idle again after a loop that ran several jobs.
C9_Witness ==
    /\ ~getStats.isProcessing
    /\ getStats.total >= 2
    /\ loopCount >= 1

\* C10: no job add() created is lost from the queue (a job leaves it only as
\* a terminal job beyond the retention window), no job is in the queue twice,
\* and every call of processJob for a job goes with one increment of its
\* attempts: no job is dispatched twice for one attempt.
C10_NoLossNoDoubleDispatch ==
    /\ \A j \in 1..(nextId - 1) :
          /\ j \in Ids
          /\ \/ InQueue(j)
             \/ /\ IsTerminal(heap[j].status)
                /\ Cardinality({k \in Ids : IsTerminal(heap[k].status)}) > KeepLast
    /\ \A a, b \in DOMAIN jobs : jobs[a] = jobs[b] => a = b
    /\ \A j \in Ids : hist[j].invoked = heap[j].attempts
    /\ \A a, b \in DOMAIN loops : loops[a].job = loops[b].job => a = b
    /\ \A l \in DOMAIN loops : heap[loops[l].job].status = "processing"

\* A second loop (after the clean-up of the first) runs a retried job while
\* another job, added during the run, is pending.
C10_Witness ==
    /\ loopCount >= 2
    /\ Len(loops) = 1
    /\ heap[loops[1].job].attempts >= 2
    /\ Pending # {}
    /\ \E j \in Ids : IsTerminal(heap[j].status)

\* The statistics of the queue behind key k, counted on its fields.
StatsOfKey(store, k) ==
    LET q == store[QueueOf(k)]
        N(st) == Cardinality({i \in DOMAIN q.jobs : q.heap[q.jobs[i]].status = st})
    IN  [ total |-> Len(q.jobs), pending |-> N("pending"), processing |-> N("processing"),
          completed |-> N("completed"), failed |-> N("failed"),
          isProcessing |-> q.processing ]

C11_Step ==
    obs' # << >> =>
        /\ qs' = qs
        /\ (obs # << >> /\ obs[1].op = obs'[1].op /\ obs[1].key = obs'[1].key)
               => obs'[1].value = obs[1].value
        /\ obs'[1].op = "getStats" => obs'[1].value = StatsOfKey(qs, obs'[1].key)
        /\ obs'[1].op = "getQueueStats" =>
               /\ DOMAIN obs'[1].value = QueueKeys
               /\ \A k \in QueueKeys : obs'[1].value[k] = StatsOfKey(qs, k)

\* C11: getStats() and getQueueStats() are read-only.  A step that is such a
\* call leaves the fields of every queue as they were (every job's status,
\* attempts and position, and the processing flag); a call that directly
\* follows the same call returns the same value; getStats() returns the counts
\* of its queue, and getQueueStats() returns under each of its three keys the
\* getStats() value of the queue of that key.
C11_StatsReadOnly == [][C11_Step]_vars

\* getQueueStats() has been called while one queue holds a completed job and
\* another queue is processing one.
C11_Witness ==
    /\ obs # << >>
    /\ obs[1].op = "getQueueStats"
    /\ obs[1].value.videoProcessing.completed = 1
    /\ obs[1].value.videoProcessing.isProcessing = FALSE
    /\ obs[1].value.analytics.processing = 1

\* C12: the clean-up removes only jobs in status 'completed' or 'failed'.
\* Whatever array it is applied to, every job of the array that is 'pending'
\* or 'processing' is in the array afterwards, the clean-up adds no job, and
\* the jobs that stay keep their statuses.
C12_PruneKeepsLive ==
    pruned # << >> =>
        /\ \A i \in DOMAIN pruned[1] :
               ~IsTerminal(heap[pruned[1][i]].status) => InQueue(pruned[1][i])
        /\ \A i \in DOMAIN jobs : \E k \in DOMAIN pruned[1] : pruned[1][k] = jobs[i]

\* The clean-up has dropped a job of an array that holds a 'pending' and a
\* 'processing' job.
C12_Witness ==
    /\ pruned # << >>
    /\ Len(jobs) < Len(pruned[1])
    /\ \E i \in DOMAIN jobs : heap[jobs[i]].status = "pending"
    /\ \E i \in DOMAIN jobs : heap[jobs[i]].status = "processing"

\* Job j was set to 'completed' or 'failed' in the step.
BecameTerminal(j) ==
    \E e \in DOMAIN steplog' : steplog'[e].job = j /\ IsTerminal(steplog'[e].to)

C13_Step ==
    \A d \in DOMAIN heap : \A k \in DOMAIN heap :
        ( /\ InQueue(d)
          /\ \A i \in DOMAIN jobs' : jobs'[i] # d
          /\ \E i \in DOMAIN jobs' : jobs'[i] = k
          /\ IsTerminal(heap'[k].status) )
        => /\ heap[d].createdAt <= heap[k].createdAt
           /\ BecameTerminal(d) => BecameTerminal(k)

\* C13: the jobs the clean-up drops are the oldest terminal jobs.  In every
\* step that drops a job d and keeps a terminal job k, d was created no later
\* than k, and d did not become terminal in this step when k was terminal
\* before it.
C13_DropsOldest == [][C13_Step]_vars

TerminalHeld == Cardinality({i \in DOMAIN jobs : IsTerminal(heap[jobs[i]].status)})

\* C14 as stated: in every reachable state the queue holds at most KeepLast
\* terminal jobs.
C14_WindowAlways == TerminalHeld <= KeepLast

\* C14, amended: in every state in which the queue is idle (processing is
\* false) it holds at most KeepLast terminal jobs, and no other job.
C14_WindowWhenIdle == ~processing => (TerminalHeld <= KeepLast /\ Len(jobs) = TerminalHeld)

\* The queue is idle, holds KeepLast jobs, and has dropped one.
C14_Witness ==
    /\ ~processing
    /\ Len(jobs) = KeepLast
    /\ nextId - 1 > KeepLast

\* The call got past getFileDetails and the HEAD request was answered.
Probed == sv.pc \in {"get", "done"} /\ sv.sent # << >> /\ sv.error # "head"

\* The call has ended and no upstream request failed.
Answered == sv.pc = "done" /\ sv.sent # << >> /\ sv.error = "none"

\* The upstream GET requests sent so far.
SentGets == {i \in DOMAIN sv.sent : sv.sent[i].method = "GET"}

\* The Range header of the request is `bytes=<a>-` followed by anything.
HasStart(a) ==
    /\ sv.range # << >>
    /\ LET pre == bytesEq \o NumStr(a) \o <<"-">>
       IN  Len(sv.range[1]) >= Len(pre) /\ SubSeq(sv.range[1], 1, Len(pre)) = pre

MinOf(a, b) == IF a <= b THEN a ELSE b

\* C16: a range request `bytes=a-b` with 0 <= a <= b < total, against the
\* origin that honours Range, is answered with status 206, Content-Range
\* `bytes a-b/total`, and b - a + 1 bytes of body (and that Content-Length).
C16_RangeServed ==
    \A a \in StartNums, b \in EndNums :
        ( /\ Answered
          /\ sv.range = <<RangeOf(NumStr(a), NumStr(b))>>
          /\ 0 <= a /\ a <= b /\ b < sv.total )
        => /\ sv.resp[1].status = 206
           /\ sv.resp[1].contentRange
                = <<bytesSp \o NumStr(a) \o <<"-">> \o NumStr(b) \o <<"/">> \o NumStr(sv.total)>>
           /\ sv.resp[1].contentLength = <<NumStr(b - a + 1)>>
           /\ sv.resp[1].bytes = b - a + 1

\* `bytes=0-99` on a resource of 1000 bytes has been answered with 100 bytes.
C16_Witness ==
    /\ Answered
    /\ sv.total = 1000
    /\ sv.range = <<RangeOf(NumStr(0), NumStr(99))>>
    /\ sv.resp[1].status = 206
    /\ sv.resp[1].bytes = 100

\* C17: a range request whose start is at or after the length the HEAD
\* request resolved is answered with status 416 and Content-Range
\* `bytes */<contentLength>`, and no GET is sent to the origin.
C17_StartBeyondEnd ==
    \A a \in StartNums :
        (Probed /\ HasStart(a) /\ sv.contentLength # NaN /\ a >= sv.contentLength[1])
        => /\ sv.pc = "done"
           /\ sv.resp[1].status = 416
           /\ sv.resp[1].contentRange
                = <<bytesSp \o <<"*", "/">> \o NumStr(sv.contentLength[1])>>
           /\ sv.resp[1].bytes = 0
           /\ SentGets = {}

\* `bytes=1000-999` on a resource of 1000 bytes has been answered with 416.
C17_Witness ==
    /\ Probed
    /\ sv.total = 1000
    /\ sv.range = <<RangeOf(NumStr(1000), NumStr(999))>>
    /\ sv.resp # << >>
    /\ sv.resp[1].status = 416

\* C18: a request without a Range header is answered with status 200,
\* Content-Length equal to the length of the resource, Content-Type and
\* `Accept-Ranges: bytes`, and the whole body; no upstream request of the
\* call carries a Range header.
C18_FullBody ==
    sv.range = << >> =>
        /\ \A i \in DOMAIN sv.sent : sv.sent[i].range = << >>
        /\ Answered =>
               /\ sv.resp[1].status = 200
               /\ sv.resp[1].contentLength = <<NumStr(sv.total)>>
               /\ sv.resp[1].contentType = "video/mp4"
               /\ sv.resp[1].acceptRanges = <<"bytes">>
               /\ sv.resp[1].contentRange = << >>
               /\ sv.resp[1].bytes = sv.total

\* A request without a Range header has been answered after a GET.
C18_Witness ==
    /\ Answered
    /\ sv.range = << >>
    /\ SentGets # {}
    /\ sv.resp[1].bytes = 2500000

\* The Range header of the request lists more than one range.
MultiRange == sv.range # << >> /\ \E i \in DOMAIN sv.range[1] : sv.range[1][i] = ","

\* C19: a Range header that lists more than one range is rejected with status
\* 416: no GET with a Range header is sent to the origin and no body is served.
C19_MultiRangeRejected ==
    (Probed /\ MultiRange) =>
        /\ SentGets = {}
        /\ sv.pc = "done"
        /\ sv.resp[1].status = 416
        /\ sv.resp[1].bytes = 0

\* C20: for a range request with start < contentLength, the end sent to the
\* origin is min(requested end, contentLength - 1) when an end was given and
\* min(start + 1000000 - 1, contentLength - 1) when it was omitted (and the
\* start sent is the start requested).
C20_ForwardedEnd ==
    \A a \in StartNums :
        (Probed /\ sv.contentLength # NaN /\ a < sv.contentLength[1]) =>
            /\ \A b \in EndNums :
                   sv.range = <<RangeOf(NumStr(a), NumStr(b))>> =>
                       /\ SentGets # {}
                       /\ \A i \in SentGets :
                              sv.sent[i].range =
                                <<RangeOf(NumStr(a), NumStr(MinOf(b, sv.contentLength[1] - 1)))>>
            /\ sv.range = <<RangeOf(NumStr(a), << >>)>> =>
                   /\ SentGets # {}
                   /\ \A i \in SentGets :
                          sv.sent[i].range =
                            <<RangeOf(NumStr(a), NumStr(MinOf(a + 1000000 - 1,
                                                              sv.contentLength[1] - 1)))>>

\* `bytes=1500000-` on a resource of 2500000 bytes: the end sent is 2499999;
\* the end of `bytes=0-` would be 999999.
C20_Witness ==
    /\ Probed
    /\ sv.total = 2500000
    /\ sv.range = <<RangeOf(NumStr(1500000), << >>)>>
    /\ \E i \in SentGets : sv.sent[i].range = <<RangeOf(NumStr(1500000), NumStr(2499999))>>

\* The Range header r of an upstream request is `bytes=<start>-<end>` with
\* 0 <= start <= end < total.
IsRangeSpec(r, total) ==
    LET parts == Split(SubSeq(r, Len(bytesEq) + 1, Len(r)), "-")
    IN  /\ IndexOf(r, bytesEq) = 1
        /\ Len(parts) = 2
        /\ parts[1] # << >> /\ AllDigits(parts[1])
        /\ parts[2] # << >> /\ AllDigits(parts[2])
        /\ DigitsValue(parts[1]) <= DigitsValue(parts[2])
        /\ DigitsValue(parts[2]) < total

\* C21: every range streamVideo sends to the origin satisfies
\* 0 <= start <= end < total, whatever Range header the client sent.
C21_ForwardedRangeValid ==
    \A i \in SentGets :
        sv.sent[i].range # << >> => IsRangeSpec(sv.sent[i].range[1], sv.total)

\* C23: when the HEAD request of streamVideo fails, the client is served
\* from a local copy (a 200 or 206 body, or a redirect to one) or receives
\* status 502.
C23_ProbeFailureFallsBack ==
    (sv.pc = "done" /\ sv.error = "head") => sv.resp[1].status \in {200, 206, 302, 502}


\* The URL of the request is none that the proxy may fetch: it is missing,
\* cannot be parsed, or names a host outside the allow-list.
AllowList == {ImageKitHost} \cup {px.env[i] : i \in 1..Len(px.env)}
InvalidUrl ==
    \/ px.raw.kind \in {"missing", "malformedEscape", "unparsable"}
    \/ px.raw.kind = "url" /\ px.raw.host \notin AllowList

\* C22: a request to proxyImageKitVideo whose URL is missing, unparsable or on
\* a host outside the allow-list is answered with status 400, and no upstream
\* request is issued or retried for it.
C22_ValidationRejects ==
    (px.pc # "idle" /\ InvalidUrl) =>
        /\ px.pc = "done"
        /\ px.resp[1].status = 400
        /\ px.requests = 0
        /\ px.retried = 0

\* The same without the answer's status: no upstream request for such a URL.
NoUpstreamForInvalidUrl ==
    (px.pc # "idle" /\ InvalidUrl) => (px.pc = "done" /\ px.requests = 0)

\* fetchUpstream has been called: the request passed the validation.
Fetching == px.requests > 0
\* The request in flight, or the latest one, was issued to follow a redirect.
Redirected == Fetching /\ px.request[1].cause.kind = "redirect"
Hop == px.request[1].cause.location[1]

C25_SeeOtherDropsRange ==
    (Redirected /\ px.request[1].cause.status = 303) =>
        (px.request[1].method = "GET" /\ px.request[1].range = << >>)

\* The upstream answered a redirect with Location when the budget was used up.
BudgetExceeded ==
    /\ px.followed = redirects
    /\ px.upstream # << >>
    /\ px.upstream[1].statusCode = 302
    /\ px.upstream[1].hasLocation

\* C26: when the upstream answers 302 with a Location after 5 redirects were
\* followed, the call ends with an error and the client receives status 502.
C26_TooManyRedirects ==
    BudgetExceeded => (px.pc = "done" /\ px.err # << >> /\ px.resp[1].status = 502)

\* The error has one of the codes fetchUpstream takes for a passing failure.
TransientCode(err) == err.code # << >> /\ err.code[1] \in NetworkCodes
\* The error is another failure of the connection.
OtherCode(err) == err.code # << >> /\ err.code[1] \notin NetworkCodes

C28_TimeoutRetried ==
    (px.pc = "done" /\ px.err = <<UpstreamTimeoutError>>) => px.retried = retries

\* The call ended because fetchUpstream rejected with a network error.
NetworkFailure ==
    /\ px.pc = "done"
    /\ px.failed > 0
    /\ px.err # << >>
    /\ TransientCode(px.err[1])

\* C29: after a network error the client is sent to the local fallback only
\* if a local copy of the file exists, and receives 502 otherwise.
C29_FallbackIfCopy ==
    NetworkFailure =>
        /\ px.resp[1].status = 302 => px.localCopy
        /\ ~px.localCopy => px.resp[1].status = 502

\* C30: when the client closes its connection the call is over: no upstream
\* request stays in flight, no timer stays armed, and no further upstream
\* request is issued.
C30_Step ==
    /\ px'.closed => px'.pc = "done"
    /\ px.closed => px'.requests = px.requests
C30_CloseCancels == [][C30_Step]_vars

\* The path str is the directory prefix or lies below it.
StartsWithDir(str, prefix) ==
    str = prefix \/ StartsWith(str, prefix \o <<Slash>>)

\* The local-videos route has answered.
LocalDone == lv.pc = "done"
LocalResp == lv.resp[1]

\* C31: the local-videos route opens only files inside the storage root
\* uploads/videos; a filename that resolves to a path outside it, a sibling
\* directory whose name starts with the root's name included, is answered
\* with 403 and no file is opened.
C31_ConfinedToStorage ==
    LocalDone =>
        /\ lv.opened # << >> => StartsWithDir(lv.opened[1], localStorageDir)
        /\ ~StartsWithDir(lv.filePath, localStorageDir) =>
            (LocalResp.status = 403 /\ lv.opened = << >>)

\* The request named a file of the storage root that exists.
LocalFound ==
    LocalDone /\ StartsWithDir(lv.filePath, localStorageDir) /\ existsSync(lv.filePath)
\* The Range header, when it is `bytes=<digits>-` followed by nothing or by digits.
LocalParts == Split(SubSeq(lv.range[1], Len(bytesEq) + 1, Len(lv.range[1])), "-")
LocalNumeric ==
    /\ lv.range # << >>
    /\ IndexOf(lv.range[1], bytesEq) = 1
    /\ Len(LocalParts) = 2
    /\ LocalParts[1] # << >> /\ AllDigits(LocalParts[1])
    /\ AllDigits(LocalParts[2])
LocalStart == DigitsValue(LocalParts[1])
ContentRangeOf(a, b, total) ==
    <<bytesSp \o NumStr(a) \o <<"-">> \o NumStr(b) \o <<"/">> \o NumStr(total)>>

\* C32: for a file of `total` bytes the local-videos route answers 206 only
\* with a Content-Range `bytes a-b/total` such that 0 <= a <= b < total, with
\* Content-Length b - a + 1 and as many bytes; a start at or beyond total is
\* answered with 416 and `bytes */total`; without a Range header the answer
\* is 200 with Content-Length total.
C32_LocalRangeContract ==
    LocalFound =>
        /\ LocalResp.status = 206 =>
            /\ LocalResp.contentLength = <<Num(LocalResp.bytes)>>
            /\ \E a \in StartNums, b \in EndNums \cup {lv.total - 1} :
                /\ a <= b /\ b < lv.total
                /\ LocalResp.contentRange = ContentRangeOf(a, b, lv.total)
                /\ LocalResp.bytes = b - a + 1
        /\ (LocalNumeric /\ LocalStart >= lv.total) =>
            /\ LocalResp.status = 416
            /\ LocalResp.contentRange = <<bytesSp \o <<"*", "/">> \o NumStr(lv.total)>>
        /\ lv.range = << >> =>
            (LocalResp.status = 200 /\ LocalResp.contentLength = <<Num(lv.total)>>)

\* The jobs of the exported queue behind key k.
JobsOf(k) == {qs[QueueOf(k)].heap[j] : j \in DOMAIN qs[QueueOf(k)].heap}
HistOf(k, j) == qs[QueueOf(k)].hist[j]

\* C33: a streaming job has priority 1, 2, 3 for quality high, medium, low and
\* maxAttempts 2; a processing job has priority 1, 3, 5 for compression high,
\* medium, low and maxAttempts 3; an analytics job has priority 10 and
\* maxAttempts 1, is invoked at most once and is failed once it has thrown.
C33_HelperPriorities ==
    /\ \A job \in JobsOf("videoStreaming") :
        /\ job.type = "stream-video"
        /\ job.maxAttempts = 2
        /\ job.data.quality = "high" => job.priority = 1
        /\ job.data.quality = "medium" => job.priority = 2
        /\ job.data.quality = "low" => job.priority = 3
    /\ \A job \in JobsOf("videoProcessing") :
        /\ job.type = "process-video"
        /\ job.maxAttempts = 3
        /\ job.data.compressionLevel = "high" => job.priority = 1
        /\ job.data.compressionLevel = "medium" => job.priority = 3
        /\ job.data.compressionLevel = "low" => job.priority = 5
    /\ \A job \in JobsOf("analytics") :
        /\ job.type = "process-analytics"
        /\ job.priority = 10
        /\ job.maxAttempts = 1
        /\ HistOf("analytics", job.id).invoked <= 1
        /\ HistOf("analytics", job.id).thrown > 0 =>
            (job.status = "failed" /\ job.attempts = 1)

C33_Witness ==
    /\ \E job \in JobsOf("analytics") :
        HistOf("analytics", job.id).thrown = 1 /\ job.status = "failed"
    /\ \E job \in JobsOf("videoStreaming") :
        job.data.quality = "medium" /\ job.status = "completed"

\* C38: every upstream request of proxyImageKitVideo, the first one, those
\* that follow a redirect and the retries, goes to ik.imagekit.io or to the
\* host of the configured endpoint.
C38_UpstreamHostAllowed ==
    Fetching => px.request[1].url.host \in AllowList

\* The job that the call of add() with the options OptionsGiven[j] created.
OptionsJob(j) == qs[videoProcessingQueue].heap[j]
GivenOr(opt, dflt) == IF opt = << >> THEN dflt ELSE opt[1]

\* C34: a job has the priority and the maxAttempts its caller gave, for every
\* priority >= 0 and maxAttempts >= 1, and 5 and 3 where the option was
\* omitted; no job given priority 1 is started while a job given priority 0
\* is pending.
C34_Step ==
    /\ \A j \in DOMAIN OptionsGiven' :
        /\ OptionsJob(j)'.priority = GivenOr(OptionsGiven'[j].priority, 5)
        /\ OptionsJob(j)'.maxAttempts = GivenOr(OptionsGiven'[j].maxAttempts, 3)
    /\ \A a, b \in DOMAIN OptionsGiven :
        (/\ OptionsGiven[a].priority = <<0>>
         /\ OptionsGiven[b].priority = <<1>>
         /\ OptionsJob(a).status = "pending"
         /\ OptionsJob(b).status = "pending")
            => OptionsJob(b)'.status # "processing"
C34_OptionsStored == [][C34_Step]_vars

\* The same for the options the code does store: every value but 0.
OptionsStoredIfNotZero ==
    \A j \in DOMAIN OptionsGiven :
        /\ OptionsGiven[j].priority # <<0>> =>
            OptionsJob(j).priority = GivenOr(OptionsGiven[j].priority, 5)
        /\ OptionsJob(j).maxAttempts = GivenOr(OptionsGiven[j].maxAttempts, 3)

\* C35: every job with maxAttempts >= 1 has 0 <= attempts <= maxAttempts and
\* as many attempts as invocations of its handler; a pending job has
\* attempts < maxAttempts and a failed job attempts = maxAttempts.
C35_AttemptsBounded ==
    \A j \in Ids :
        heap[j].maxAttempts >= 1 =>
            /\ 0 <= heap[j].attempts
            /\ heap[j].attempts <= heap[j].maxAttempts
            /\ heap[j].attempts = hist[j].invoked
            /\ heap[j].status = "pending" => heap[j].attempts < heap[j].maxAttempts
            /\ heap[j].status = "failed" => heap[j].attempts = heap[j].maxAttempts

\* A job of maxAttempts 2 is pending after a failure, while a more urgent
\* job is at its first attempt.
C35_Witness ==
    /\ \E j \in Ids :
        /\ heap[j].maxAttempts = 2 /\ heap[j].status = "pending"
        /\ heap[j].attempts = 1 /\ hist[j].thrown = 1
    /\ \E j \in Ids : heap[j].status = "processing" /\ heap[j].attempts = 1

IdleIsPruned ==
    (~processing /\ loopCount >= 1) =>
        /\ Len(jobs) <= KeepLast
        /\ \A i \in DOMAIN jobs : IsTerminal(heap[jobs[i]].status)
\* A job leaves the queue only in the step in which the worker loop exits.
C37_Step ==
    /\ IdleIsPruned'
    /\ (\E i \in DOMAIN jobs : \A k \in DOMAIN jobs' : jobs'[k] # jobs[i])
          => (processing /\ ~processing')

\* C37: jobs are dropped only when the worker loop exits: an idle queue holds
\* at most 100 jobs, all terminal, and while a loop runs every job that was
\* in the queue, the completed and failed ones included, stays in it.
C37_PruneAtLoopExit == IdleIsPruned /\ [][C37_Step]_vars

\* The loop is running with more than KeepLast terminal jobs in the queue.
C37_Witness ==
    /\ processing
    /\ TerminalHeld = KeepLast + 1
    /\ getStats.completed + getStats.failed = KeepLast + 1

\* C39: over any sequence of recordView calls of one user for one reel the
\* counter of the reel is incremented at most once, and the view duration
\* stored never decreases.
C39_Step ==
    /\ rv'.viewsCount <= 1
    /\ rv.view # << >> => (rv'.view # << >> /\ rv'.view[1] >= rv.view[1])
C39_CountedOnce == [][C39_Step]_vars

\* The part of C39 about the stored duration.
ViewDurationMonotone ==
    [][rv.view # << >> => (rv'.view # << >> /\ rv'.view[1] >= rv.view[1])]_vars

C15_Step ==
    \A k \in QueueKeys :
        (actor' # << >> /\ actor'[1] # k) =>
            /\ qs'[QueueOf(k)] = qs[QueueOf(k)]
            /\ StatsOfKey(qs', k) = StatsOfKey(qs, k)

\* C15: the three queues share no state.  A step that is an add() or a worker
\* step of one queue leaves the jobs, the processing flag and the getStats()
\* value of each of the other two queues as they were.
C15_QueuesIndependent == [][C15_Step]_vars

\* Jobs of two different queues are in status 'processing' at the same time,
\* and the latest step was a step of one of these queues.
C15_Witness ==
    /\ actor = <<"videoStreaming">>
    /\ StatsOfKey(qs, "videoProcessing").processing = 1
    /\ StatsOfKey(qs, "videoStreaming").processing = 1
    /\ qs[videoProcessingQueue].processing /\ qs[videoStreamingQueue].processing

====
